---- MODULE Spec2Model ----
(***************************************************************************)
(* Request orchestration layer of OOTDiffusion: request validation         *)
(* (utils/validation.py), the pipeline of ModelManager.process_image       *)
(* (api/app.py) and of run.inference.inference (run/inference.py), the     *)
(* transports in front of them (api/app.py process_images, handler.py      *)
(* RunPodHandler._handle_process, runpod_handler.py handler) and the       *)
(* module-level model cache of run/inference.py.                           *)
(***************************************************************************)
EXTENDS Integers, Sequences, FiniteSets, TLC

(***************************************************************************)
(* Bounds of the model.                                                    *)
(***************************************************************************)
\* largest number of images the synthesizer is let to return
MaxReturned == 3
\* number of concurrent callers of run.inference.initialize_models
MaxThreads == 2
\* number of requests that persist results to the shared output directory
MaxWriters == 2
\* last second of the wall clock
MaxClock == 1
\* trackers (worker processes) that share error_tracker.json
MaxTrackers == 2
\* errors tracked altogether
MaxRecords == 3
\* largest retries argument given to run_command
MaxRetries == 5

(***************************************************************************)
(* Program constants.  Scale values are kept in tenths (2.0 is 20).        *)
(***************************************************************************)
max_samples == 4
max_steps == 40
min_scale == 10
max_scale == 50
\* A seed is a Python integer, which may exceed 32 bits: it is kept as the
\* pair <<hi, lo>> with seed = hi * 65536 + lo and 0 <= lo < 65536
SeedOf(hi, lo) == <<hi, lo>>
SeedLess(a, b) == a[1] < b[1] \/ (a[1] = b[1] /\ a[2] < b[2])
\* -1
seed_random == SeedOf(-1, 65535)
\* 2147483647
max_seed == SeedOf(32767, 65535)
max_file_size == 10485760
\* RunPodHandler.setup: ceiling of the wait for the models and its polling step
max_wait_time == 300
poll_interval == 5
min_dimension == 64
max_dimension == 4096
allowed_extensions == {".jpg", ".jpeg", ".png", ".bmp"}

(***************************************************************************)
(* Values.  A category is an integer or a string (Union[int, str]); the    *)
(* two kinds are kept apart so that 0 and "upperbody" are different        *)
(* values, as they are in the code.                                        *)
(***************************************************************************)
IntCat(n) == [isStr |-> FALSE, n |-> n, s |-> ""]
StrCat(s) == [isStr |-> TRUE, n |-> 0, s |-> s]

\* a file as validate_image_file sees it
File(exists, size, ext, mime, w, h, ok) ==
    [exists |-> exists, size |-> size, ext |-> ext, mime |-> mime,
     width |-> w, height |-> h, verifies |-> ok]

GoodImage == File(TRUE, 1000, ".jpg", "image/jpeg", 256, 256, TRUE)
GoodPng == File(TRUE, 1000, ".PNG", "image/png", 64, 4096, TRUE)
NoFile == File(FALSE, 0, ".jpg", "", 0, 0, FALSE)
TooBig == File(TRUE, max_file_size + 1, ".jpg", "image/jpeg", 256, 256, TRUE)
BadExt == File(TRUE, 1000, ".gif", "image/gif", 256, 256, TRUE)
NotImage == File(TRUE, 1000, ".jpg", "text/plain", 0, 0, FALSE)
TooSmall == File(TRUE, 1000, ".png", "image/png", 63, 256, TRUE)
TooLarge == File(TRUE, 1000, ".png", "image/png", 256, 4097, TRUE)
Corrupt == File(TRUE, 1000, ".jpg", "image/jpeg", 256, 256, FALSE)

Lower(ext) ==
    CASE ext = ".PNG" -> ".png"
      [] ext = ".JPG" -> ".jpg"
      [] ext = ".Png" -> ".png"
      [] ext = ".BMP" -> ".bmp"
      [] ext = ".JPEG" -> ".jpeg"
      [] OTHER -> ext

IsImageMime(mime) == mime \in {"image/jpeg", "image/png", "image/gif", "image/bmp"}

(***************************************************************************)
(* InputValidator (utils/validation.py).  Every validate_* returns the     *)
(* pair (is_valid, message); the message is kept by its leading words.     *)
(***************************************************************************)
Ret(ok, msg) == [ok |-> ok, msg |-> msg]

\* a validator that compares the extension as written
validate_image_fileCaseSensitive(f) ==
    IF ~f.exists THEN Ret(FALSE, "File does not exist")
    ELSE IF f.size > max_file_size THEN Ret(FALSE, "File too large")
    ELSE IF f.ext \notin allowed_extensions THEN Ret(FALSE, "Invalid file extension")
    ELSE IF ~IsImageMime(f.mime) THEN Ret(FALSE, "File is not an image")
    ELSE IF f.width < min_dimension \/ f.height < min_dimension THEN Ret(FALSE, "Image too small")
    ELSE IF f.width > max_dimension \/ f.height > max_dimension THEN Ret(FALSE, "Image too large")
    ELSE IF ~f.verifies THEN Ret(FALSE, "Invalid image file")
    ELSE Ret(TRUE, "Valid image file")
validate_image_file(f) ==
    IF ~f.exists THEN Ret(FALSE, "File does not exist")
    ELSE IF f.size > max_file_size THEN Ret(FALSE, "File too large")
    ELSE IF Lower(f.ext) \notin allowed_extensions THEN Ret(FALSE, "Invalid file extension")
    ELSE IF ~IsImageMime(f.mime) THEN Ret(FALSE, "File is not an image")
    ELSE IF f.width < min_dimension \/ f.height < min_dimension THEN Ret(FALSE, "Image too small")
    ELSE IF f.width > max_dimension \/ f.height > max_dimension THEN Ret(FALSE, "Image too large")
    ELSE IF ~f.verifies THEN Ret(FALSE, "Invalid image file")
    ELSE Ret(TRUE, "Valid image file")

validate_model_path(f) == validate_image_file(f)

validate_cloth_path(f) == validate_image_file(f)

validate_model_type(model_type) ==
    IF model_type \notin {"hd", "dc"} THEN Ret(FALSE, "Invalid model type")
    ELSE Ret(TRUE, "Valid model type")

valid_categories ==
    {IntCat(0), IntCat(1), IntCat(2), StrCat("upperbody"), StrCat("lowerbody"), StrCat("dress")}

validate_category(category, model_type) ==
    IF model_type = "hd"
    THEN IF category # IntCat(0) /\ category # StrCat("upperbody")
         THEN Ret(FALSE, "HD model only supports upperbody garments")
         ELSE Ret(TRUE, "Valid category for HD model")
    ELSE IF model_type = "dc"
    THEN IF category \notin valid_categories
         THEN Ret(FALSE, "Invalid category")
         ELSE Ret(TRUE, "Valid category for DC model")
    ELSE Ret(FALSE, "Unknown model type")

validate_samples(samples) ==
    IF samples < 1 THEN Ret(FALSE, "Samples must be at least 1")
    ELSE IF samples > max_samples THEN Ret(FALSE, "Samples too high")
    ELSE Ret(TRUE, "Valid samples count")

validate_steps(steps) ==
    IF steps < 1 THEN Ret(FALSE, "Steps must be at least 1")
    ELSE IF steps > max_steps THEN Ret(FALSE, "Steps too high")
    ELSE Ret(TRUE, "Valid steps count")

\* a scale check whose upper bound is exclusive
validate_scaleExclusive(scale) ==
    IF scale < min_scale THEN Ret(FALSE, "Scale too low")
    ELSE IF scale >= max_scale THEN Ret(FALSE, "Scale too high")
    ELSE Ret(TRUE, "Valid scale value")
validate_scale(scale) ==
    IF scale < min_scale THEN Ret(FALSE, "Scale too low")
    ELSE IF scale > max_scale THEN Ret(FALSE, "Scale too high")
    ELSE Ret(TRUE, "Valid scale value")

\* a seed check with no upper bound
validate_seedUnbounded(seed) ==
    IF SeedLess(seed, seed_random) THEN Ret(FALSE, "Seed must be -1 or positive")
    ELSE Ret(TRUE, "Valid seed value")
validate_seed(seed) ==
    IF SeedLess(seed, seed_random) THEN Ret(FALSE, "Seed must be -1 or positive")
    ELSE IF SeedLess(max_seed, seed) THEN Ret(FALSE, "Seed too large")
    ELSE Ret(TRUE, "Valid seed value")

\* errors.append(f"<label>: {error_msg}") when the check failed
Entry(label, r) == IF r.ok THEN <<>> ELSE <<label>>

\* request_data is a dict: rd.present holds its keys, the other fields their values
Has(rd, key) == key \in rd.present

MissingRequired(rd) ==
    (IF Has(rd, "model_path") THEN <<>> ELSE <<"Missing required field: model_path">>)
    \o (IF Has(rd, "cloth_path") THEN <<>> ELSE <<"Missing required field: cloth_path">>)

Get(rd, key, value, default) == IF Has(rd, key) THEN value ELSE default

FieldErrors(rd) ==
    LET model_type == Get(rd, "model_type", rd.model_type, "hd")
        category == Get(rd, "category", rd.category, IntCat(0))
    IN Entry("Model path", validate_model_path(rd.model_path))
       \o Entry("Cloth path", validate_cloth_path(rd.cloth_path))
       \o Entry("Model type", validate_model_type(model_type))
       \o Entry("Category", validate_category(category, model_type))
       \o (IF Has(rd, "samples") THEN Entry("Samples", validate_samples(rd.samples)) ELSE <<>>)
       \o (IF Has(rd, "steps") THEN Entry("Steps", validate_steps(rd.steps)) ELSE <<>>)
       \o (IF Has(rd, "scale") THEN Entry("Scale", validate_scale(rd.scale)) ELSE <<>>)
       \o (IF Has(rd, "seed") THEN Entry("Seed", validate_seed(rd.seed)) ELSE <<>>)

\* the (is_valid, errors) pair of InputValidator.validate_request
validate_request(rd) ==
    LET missing == MissingRequired(rd)
        errors == IF missing # <<>> THEN missing ELSE FieldErrors(rd)
    IN [ok |-> errors = <<>>, errors |-> errors]


\* validate_and_convert_category: the integer of an accepted category
category_map(s) ==
    CASE s = "upperbody" -> 0
      [] s = "lowerbody" -> 1
      [] s = "dress" -> 2
      [] OTHER -> -1

\* a conversion that skips the validation and the name lookup
validate_and_convert_categoryUnchecked(category, model_type) ==
    [raised |-> FALSE, field |-> "", value |-> category.n]
\* raised: ValidationError(..., "category") was raised; value: the int returned
validate_and_convert_category(category, model_type) ==
    IF ~validate_category(category, model_type).ok
    THEN [raised |-> TRUE, field |-> "category", value |-> -1]
    ELSE [raised |-> FALSE, field |-> "",
          value |-> IF category.isStr THEN category_map(category.s) ELSE category.n]

\* the parameters FastAPI reports when it cannot build the arguments of the
\* endpoint: a missing File(...) and every Field constraint that is violated
DependsErrors(r) ==
    (IF r.model_file.present THEN {} ELSE {"model_file"})
    \cup (IF r.cloth_file.present THEN {} ELSE {"cloth_file"})
    \cup (IF r.samples >= 1 /\ r.samples <= max_samples THEN {} ELSE {"samples"})
    \cup (IF r.steps >= 1 /\ r.steps <= max_steps THEN {} ELSE {"steps"})
    \cup (IF r.scale >= min_scale /\ r.scale <= max_scale THEN {} ELSE {"scale"})
    \cup (IF ~SeedLess(r.seed, seed_random) /\ ~SeedLess(max_seed, r.seed) THEN {} ELSE {"seed"})

\* the Field constraints of ProcessRequest (ge / le), enforced when it is built
ProcessRequestOk(r) ==
    /\ r.samples >= 1 /\ r.samples <= max_samples
    /\ r.steps >= 1 /\ r.steps <= max_steps
    /\ r.scale >= min_scale /\ r.scale <= max_scale
    /\ ~SeedLess(r.seed, seed_random) /\ ~SeedLess(max_seed, r.seed)

(***************************************************************************)
(* State.                                                                  *)
(***************************************************************************)
VARIABLES
    pc,                 \* position of the request in its handler
    req,                \* the request as the transport received it
    args,               \* arguments of the running run.inference.inference call
    caller,             \* who called inference: direct, module_load, warmup, job
    stage,              \* pipeline stage the request is in
    hist,               \* the stages entered so far, in order
    called,             \* the opaque components invoked for this request
    region,             \* region name handed to get_mask_location
    synthcat,           \* category name handed to the synthesizer
    category,           \* the local variable category after conversion
    exc,                \* the exception in flight
    images,             \* the images the synthesizer returned (their number)
    result_paths,       \* process_image's local list result_paths
    result_images,      \* the local list result_images (inference, _handle_process)
    disk,               \* output files written to outputs/results, with the image in each
    temps,              \* ephemeral input files that exist
    tpaths,             \* the temp path variables that are set (not None)
    response,           \* what the caller gets
    bg,                 \* cleanup_temp_files is scheduled as a background task
    tracked,            \* records appended by error_tracker.track_error
    gmodel,             \* run/inference.py globals: instance held (0 is None)
    ncons,              \* constructions done, per model of run/inference.py
    gdevice,            \* device each model of run/inference.py was built on
    builtNow,           \* the models constructed during the current call
    models_initialized, \* runpod_handler.py global
    svLoaded,           \* runpod_handler.py has been imported
    tpc,                \* concurrent initialize_models: position of a thread
    tuse,               \* concurrent initialize_models: instances a thread used
    vreq,               \* validate_request alone: its argument
    vres,               \* validate_request alone: its result
    clock,              \* wall clock, in whole seconds
    wjob,               \* persisting requests: position, timestamp, images
    outdir,             \* outputs/results: the files, who wrote them last
    clobbered,          \* result files that were overwritten
    gpus,               \* accelerators of the machine (torch.cuda.device_count())
    app,                \* import of api.app: unloaded, up, failed
    mm_models,          \* ModelManager.models: the keys assigned so far
    mm_device,          \* device index each entry of ModelManager.models got
    models_loaded,      \* ModelManager.models_loaded
    setup_complete,     \* RunPodHandler.setup_complete
    wait_time,          \* RunPodHandler.setup: seconds waited for the models
    log_exists,         \* error_tracker.json exists
    log_file,           \* the list of records error_tracker.json holds
    errors,             \* ErrorTracker.errors of each tracker
    ever_tracked,       \* every record handed to track_error, in order
    save_failed,        \* a write of error_tracker.json has raised
    original_filename,  \* create_temp_file: the filename the client sent
    temp_file,          \* create_temp_file: the name under <temp_dir>/uploads
    upload_pc,          \* position of the upload: received, created, saved, released
    fs_written,         \* names, relative to <temp_dir>/uploads, written to
    fs_removed,         \* names, relative to <temp_dir>/uploads, unlinked
    rc_retries,         \* run_command: its argument retries
    rc_attempt,         \* run_command: the loop variable attempt
    rc_events,          \* run_command: executions and sleeps so far, in order
    rc_result,          \* run_command: running, True or False
    dl_next,            \* download_all_models: index of the next model
    dl_log,             \* download_all_models: what download_model did, per model
    success_count,      \* download_all_models: its counter
    dl_result           \* download_all_models: running, True or False

pipeVars == <<pc, req, args, caller, stage, hist, called, region, synthcat, category,
              exc, images, result_paths, result_images, disk, temps, tpaths, response, bg, tracked,
              builtNow, models_initialized, svLoaded>>
cacheVars == <<gmodel, ncons, gdevice>>
concVars == <<tpc, tuse>>
valVars == <<vreq, vres>>
nameVars == <<clock, wjob, outdir, clobbered>>
mgrVars == <<gpus, app, mm_models, mm_device, models_loaded, setup_complete, wait_time>>
trackVars == <<log_exists, log_file, errors, ever_tracked, save_failed>>
tempVars == <<original_filename, temp_file, upload_pc, fs_written, fs_removed>>
dlVars == <<rc_retries, rc_attempt, rc_events, rc_result, dl_next, dl_log,
           success_count, dl_result>>
vars == <<pipeVars, cacheVars, concVars, valVars, nameVars, mgrVars, trackVars, tempVars, dlVars>>

Stages == <<"Validating", "Loading", "PoseEstimating", "Parsing", "Masking",
            "Synthesizing", "Persisting", "Done">>

ModelNames == {"openpose_model", "parsing_model", "hd_model", "dc_model"}
\* the keys of ModelManager.models in the order load_models assigns them
ModelKeys == <<"openpose_hd", "parsing_hd", "ootd_hd", "openpose_dc", "parsing_dc", "ootd_dc">>
ModelKeySet == {ModelKeys[i] : i \in 1 .. Len(ModelKeys)}
HdKeys == {"openpose_hd", "parsing_hd", "ootd_hd"}
DcKeys == {"openpose_dc", "parsing_dc", "ootd_dc"}
\* what torch.cuda.device_count() can answer on the machine
Accelerators == 0 .. 2
NoDevice == -1
InitOrder == <<"openpose_model", "parsing_model", "hd_model", "dc_model">>

category_dict_utils == <<"upper_body", "lower_body", "dresses">>
category_dict == <<"upperbody", "lowerbody", "dress">>

\* list[index] of Python: a negative index counts from the end; anything else
\* out of range, or a string index, raises
IndexOk(c, list) == ~c.isStr /\ c.n >= -Len(list) /\ c.n < Len(list)
Index(c, list) == list[(IF c.n < 0 THEN c.n + Len(list) ELSE c.n) + 1]

NoExc == [kind |-> "none", at |-> "none", step |-> "", fields |-> {}]
\* an exception of class kind raised while the request is in stage at; step is
\* the stage name the exception object itself carries (ProcessingError.step)
\* fields are the request fields the exception's message names
RaiseNaming(kind, at, fields) == [kind |-> kind, at |-> at, step |-> "", fields |-> fields]
Raise(kind, at) == RaiseNaming(kind, at, {})
IsOOTDError(e) == e.kind \in {"ValidationError", "ProcessingError", "ModelLoadError", "ResourceError"}

NoReq == [transport |-> "none"]
NoResp == [status |-> "none"]
\* kind is the error kind the answer lets the caller tell, names the request
\* fields its message names, message where the message comes from (a fixed
\* text, or the text of the exception), trace whether it holds a traceback
Resp(status, success, paths, imgs, detail) ==
    [status |-> status, success |-> success, result_paths |-> paths,
     result_images |-> imgs, detail |-> detail,
     kind |-> "", names |-> {}, message |-> "fixed", trace |-> FALSE]
\* a failure answer built from the exception e
Failure(r, kind, e, trace) ==
    [r EXCEPT !.kind = kind, !.names = e.fields, !.message = "exception", !.trace = trace]

(***************************************************************************)
(* Requests.                                                               *)
(***************************************************************************)
Upload(present, ctype, decodable, file) ==
    [present |-> present, ctype_image |-> ctype, decodable |-> decodable, file |-> file]
GoodUpload == Upload(TRUE, TRUE, TRUE, GoodImage)
Uploads ==
    {GoodUpload,
     Upload(FALSE, TRUE, TRUE, NoFile),
     Upload(TRUE, FALSE, TRUE, NotImage),
     Upload(TRUE, TRUE, FALSE, Corrupt),
     Upload(TRUE, TRUE, TRUE, Corrupt),
     Upload(TRUE, TRUE, TRUE, TooSmall)}

Transports == {"api", "runpod", "direct", "serverless"}
ModelTypes == {"hd", "dc", "xx"}
Categories ==
    {IntCat(-1), IntCat(0), IntCat(1), IntCat(2), IntCat(5),
     StrCat("upperbody"), StrCat("dress"), StrCat("hat")}
GarmentTypes == {"upper", "lower", "none"}
SamplesIn == 0 .. (max_samples + 1)

Request(t, mf, cf, mt, c, g, n, steps, scale, seed) ==
    [transport |-> t, model_file |-> mf, cloth_file |-> cf, model_type |-> mt,
     category |-> c, garment_type |-> g, samples |-> n, steps |-> steps,
     scale |-> scale, seed |-> seed, gpu_id |-> 0]

\* garment_type is an input of inference alone; the other transports do not read it
GarmentsOf(t) == IF t \in {"direct", "serverless"} THEN GarmentTypes ELSE {"upper"}

\* requests whose parameters vary, with good uploads
ParamRequests ==
    {Request(t, GoodUpload, GoodUpload, mt, c, g, n, 20, 20, seed_random) :
        t \in Transports, mt \in ModelTypes, c \in Categories, g \in GarmentTypes, n \in SamplesIn}
\* requests with one of steps, scale, seed off its default
NumericRequests ==
    {Request(t, GoodUpload, GoodUpload, "hd", IntCat(0), "upper", 1, x[1], x[2], x[3]) :
        t \in Transports,
        x \in {<<0, 20, seed_random>>, <<1, 20, seed_random>>, <<40, 20, seed_random>>,
               <<41, 20, seed_random>>, <<20, 9, seed_random>>, <<20, 10, seed_random>>,
               <<20, 50, seed_random>>, <<20, 51, seed_random>>,
               <<20, 20, SeedOf(-1, 65534)>>, <<20, 20, SeedOf(0, 0)>>,
               <<20, 20, max_seed>>, <<20, 20, SeedOf(32768, 0)>>}}
\* requests whose uploads vary, with the default parameters
UploadRequests ==
    {Request(t, mf, cf, "hd", IntCat(0), "upper", 1, 20, 20, seed_random) :
        t \in Transports, mf \in Uploads, cf \in Uploads}
\* requests that name a device: --gpu_id of the command line, "gpu_id" of a job
DeviceRequests ==
    {[Request(t, GoodUpload, GoodUpload, mt, IntCat(0), "upper", 1, 20, 20, seed_random)
        EXCEPT !.gpu_id = 1] : t \in {"direct", "serverless"}, mt \in {"hd", "dc"}}
\* the caller gave no garment_type
NotSupplied == "absent"
\* calls of inference and jobs that give a category and no garment_type
DefaultGarmentRequests ==
    {Request(t, GoodUpload, GoodUpload, mt, c, NotSupplied, 1, 20, 20, seed_random) :
        t \in {"direct", "serverless"}, mt \in {"hd", "dc"},
        c \in {IntCat(0), IntCat(1), IntCat(2)}}
Requests ==
    {r \in ParamRequests \cup NumericRequests \cup UploadRequests \cup DeviceRequests :
        r.garment_type \in GarmentsOf(r.transport)} \cup DefaultGarmentRequests
\* garment_type="upper" of inference's signature, inputs.get("garment_type", "upper")
DefaultGarment(g) == IF g = NotSupplied THEN "upper" ELSE g

\* the arguments handler() and the command line pass to inference
ArgsOf(r) ==
    [user_image |-> r.model_file, cloth_image |-> r.cloth_file,
     garment_type |-> DefaultGarment(r.garment_type), model_type |-> r.model_type,
     category |-> r.category, samples |-> r.samples, gpu_id |-> r.gpu_id]
\* inference(user_image="dummy", cloth_image="dummy", garment_type="upper", model_type="hd")
DummyUpload == Upload(TRUE, TRUE, FALSE, Corrupt)
DummyArgs ==
    [user_image |-> DummyUpload, cloth_image |-> DummyUpload, garment_type |-> "upper",
     model_type |-> "hd", category |-> IntCat(0), samples |-> 1, gpu_id |-> 0]
NoArgs == [model_type |-> "none"]


NoCat == [isStr |-> FALSE, n |-> -99, s |-> "unset"]

(***************************************************************************)
(* Initial state: nothing received, no model of run/inference.py built.    *)
(***************************************************************************)
PipeAt(start) ==
    /\ pc = start /\ req = NoReq /\ args = NoArgs /\ caller = "none"
    /\ stage = "none" /\ hist = <<>> /\ called = {} /\ region = "" /\ synthcat = ""
    /\ category = NoCat /\ exc = NoExc /\ images = <<>> /\ result_paths = <<>>
    /\ result_images = <<>> /\ disk = {} /\ temps = {} /\ tpaths = {}
    /\ response = NoResp /\ bg = FALSE /\ tracked = 0 /\ builtNow = {}
    /\ models_initialized = FALSE /\ svLoaded = FALSE
PipeInit == PipeAt("idle")
\* the request pipeline is not part of the specifications below that run
\* initialize_models or validate_request alone
PipeParked == PipeAt("parked")
CacheInit ==
    /\ gmodel = [m \in ModelNames |-> 0]
    /\ ncons = [m \in ModelNames |-> 0]
    /\ gdevice = [m \in ModelNames |-> NoDevice]
\* api.app is not imported, no RunPodHandler has run setup
MgrAt(accelerators) ==
    /\ gpus \in accelerators
    /\ app = "unloaded" /\ mm_models = {} /\ mm_device = [k \in ModelKeySet |-> NoDevice]
    /\ models_loaded = FALSE /\ setup_complete = FALSE /\ wait_time = 0
MgrInit == MgrAt(Accelerators)
MgrParked == MgrAt({0})
\* no tracker of utils/error_handling.py is looked at
TrackParked ==
    /\ log_exists = FALSE /\ log_file = <<>> /\ errors = <<>>
    /\ ever_tracked = <<>> /\ save_failed = FALSE
\* no upload is being materialized
TempParked ==
    /\ original_filename = <<>> /\ temp_file = <<>> /\ upload_pc = "parked"
    /\ fs_written = {} /\ fs_removed = {}
\* scripts/auto_download_models.py is not running
DlParked ==
    /\ rc_retries = 0 /\ rc_attempt = 0 /\ rc_events = <<>> /\ rc_result = "parked"
    /\ dl_next = 0 /\ dl_log = <<>> /\ success_count = 0 /\ dl_result = "parked"
ConcParked == tpc = <<>> /\ tuse = <<>>
ValParked == vreq = NoReq /\ vres = NoResp
NameParked == clock = 0 /\ wjob = <<>> /\ outdir = {} /\ clobbered = {}

Init == PipeInit /\ CacheInit /\ ConcParked /\ ValParked /\ NameParked /\ MgrInit /\ TrackParked /\ TempParked /\ DlParked

(***************************************************************************)
(* Stage bookkeeping of a pipeline.                                        *)
(***************************************************************************)
Enter(s) == stage' = s /\ hist' = Append(hist, s)

\* a body that caught the exception of a stage and carried on with the next
AfterFailureSwallowed(s) ==
    CASE s = "Validating" -> "Loading"
      [] s = "Loading" -> "PoseEstimating"
      [] s = "PoseEstimating" -> "Parsing"
      [] s = "Parsing" -> "Masking"
      [] s = "Masking" -> "Synthesizing"
      [] s = "Synthesizing" -> "Persisting"
      [] OTHER -> "Done"
\* a body that ran the failed stage again
AfterFailureRetried(s) == s
\* the stage a request moves to when its stage raises: no statement of
\* process_image or inference catches inside the body, so the exception leaves
\* the function and every later stage is skipped
AfterFailure(s) == "Errored"

\* error_handler(reraise=...): the exception that leaves the wrapper
error_handler(reraise, e) == IF reraise THEN e ELSE NoExc
\* performance_monitor logs and re-raises what it caught
performance_monitor(e) == e

\* where control goes when the pipeline function is left
PcAfterPipeline(function, ok) ==
    IF function = "inference" THEN "inf_return"
    ELSE IF req.transport = "api" THEN "api_after"
    ELSE IF ok THEN "rp_readback" ELSE "rp_finally"

\* pc of the stage of a function: the statement that runs the stage
PcOfStage(function, s) ==
    LET pre == IF function = "inference" THEN "inf_" ELSE "pi_"
    IN CASE s = "Validating" -> pre \o "validate"
         [] s = "Loading" -> pre \o "load"
         [] s = "PoseEstimating" -> pre \o "pose"
         [] s = "Parsing" -> pre \o "parse"
         [] s = "Masking" -> pre \o "mask"
         [] s = "Synthesizing" -> pre \o "synth"
         [] s = "Persisting" -> pre \o "persist"
         [] s = "Done" -> PcAfterPipeline(function, TRUE)
         [] OTHER -> PcAfterPipeline(function, FALSE)

\* the pose, parsing, mask and synthesis components are called as black boxes:
\* what they raise leaves process_image as it is, a built-in exception or one
\* of the OOTDError classes of utils/error_handling.py
OpaqueFailures == {"RuntimeError", "ResourceError"}

\* the current stage raises an exception of class kind
StageRaisesNaming(function, kind, fields) ==
    LET to == AfterFailure(stage)
        e == IF function = "inference" THEN RaiseNaming(kind, stage, fields)
             ELSE performance_monitor(error_handler(TRUE, RaiseNaming(kind, stage, fields)))
    IN /\ exc' = e
       /\ Enter(to)
       /\ pc' = PcOfStage(function, to)
StageRaises(function, kind) == StageRaisesNaming(function, kind, {})

\* the current stage completes and the next one is entered
StagePasses(function, next) ==
    /\ Enter(next)
    /\ pc' = PcOfStage(function, next)
    /\ UNCHANGED exc

others == <<concVars, valVars, nameVars, mgrVars, trackVars, tempVars, dlVars>>


(***************************************************************************)
(* ModelManager() at the import of api/app.py, and RunPodHandler.setup.    *)
(***************************************************************************)
\* "gpu_id = 1 if self._is_cuda_available() and self._get_gpu_count() > 1 else 0"
DcDevice(accelerators) == IF accelerators >= 1 /\ accelerators > 1 THEN 1 ELSE 0

\* load_models: the six constructions run in one try block, in order, until
\* construction number failAt raises (0: none does); the except clause turns
\* whatever was raised into ModelLoadError and error_handler re-raises it
load_models(accelerators, failAt) ==
    LET last == IF failAt = 0 THEN Len(ModelKeys) ELSE failAt - 1
        keys == {ModelKeys[i] : i \in 1 .. last}
    IN [models |-> keys,
        device |-> [k \in ModelKeySet |->
                      IF k \notin keys THEN NoDevice
                      ELSE IF k \in HdKeys THEN 0 ELSE DcDevice(accelerators)],
        models_loaded |-> (failAt = 0),
        raised |-> IF failAt = 0 THEN NoExc ELSE Raise("ModelLoadError", "load_models")]

\* the name model_manager is bound only if ModelManager() returns
ImportOutcome(r) == IF r.raised = NoExc THEN "up" ELSE "failed"

\* "model_manager = ModelManager()" when the server process imports api.app
AppImport ==
    /\ pc = "idle"
    /\ app = "unloaded"
    /\ ~svLoaded
    /\ \E failAt \in 0 .. Len(ModelKeys) :
          LET r == load_models(gpus, failAt)
          IN /\ mm_models' = r.models
             /\ mm_device' = r.device
             /\ models_loaded' = r.models_loaded
             /\ app' = ImportOutcome(r)
    /\ UNCHANGED <<pipeVars, cacheVars, concVars, valVars, nameVars, trackVars, tempVars, dlVars, gpus, setup_complete,
                   wait_time>>

\* the dict of the except clause of RunPodHandler.handler
RpHandlerError(e) == Failure(Resp("error", FALSE, <<>>, <<>>, e.kind), "", e, TRUE)

\* what setup raises once the import has returned: the polling loop ends when
\* models_loaded is set or after 300 seconds, then "if not models_loaded: raise"
SetupRaises(loaded) == IF loaded THEN NoExc ELSE Raise("RuntimeError", "setup")

\* "if not self.setup_complete: await self.setup()" at the head of handler
RpSetup ==
    /\ pc = "rp_setup"
    /\ IF setup_complete
       THEN /\ pc' = "rp_extract"
            /\ UNCHANGED <<response, app, mm_models, mm_device, models_loaded, setup_complete>>
       ELSE \E failAt \in IF app = "up" THEN {0} ELSE 0 .. Len(ModelKeys) :
              LET r == IF app = "up"
                       THEN [models |-> mm_models, device |-> mm_device,
                             models_loaded |-> models_loaded, raised |-> NoExc]
                       ELSE load_models(gpus, failAt)
                  e == IF r.raised # NoExc THEN r.raised ELSE SetupRaises(r.models_loaded)
              IN /\ mm_models' = r.models
                 /\ mm_device' = r.device
                 /\ models_loaded' = r.models_loaded
                 /\ app' = ImportOutcome(r)
                 /\ setup_complete' = (e = NoExc)
                 /\ IF e = NoExc
                    THEN pc' = "rp_extract" /\ UNCHANGED response
                    ELSE pc' = "finished" /\ response' = RpHandlerError(e)
    /\ UNCHANGED <<req, args, caller, stage, hist, called, region, synthcat, category, exc,
                   images, result_paths, result_images, disk, temps, tpaths, bg, tracked,
                   builtNow, models_initialized, svLoaded, cacheVars, concVars, valVars,
                   nameVars, trackVars, tempVars, dlVars, gpus, wait_time>>

(***************************************************************************)
(* ModelManager.process_image (api/app.py), one action per stage.          *)
(***************************************************************************)
\* the temp file a transport materializes from an upload: process_images keeps
\* the extension of the uploaded name, _handle_process always uses ".jpg"
TempFileOf(transport, upload) ==
    IF transport = "runpod" THEN [upload.file EXCEPT !.ext = ".jpg"] ELSE upload.file

AllKeys == {"model_path", "cloth_path", "model_type", "category", "samples", "steps", "scale", "seed"}

\* the dict process_image hands to validate_request
RequestData(r) ==
    [present |-> AllKeys,
     model_path |-> TempFileOf(r.transport, r.model_file),
     cloth_path |-> TempFileOf(r.transport, r.cloth_file),
     model_type |-> r.model_type, category |-> r.category, samples |-> r.samples,
     steps |-> r.steps, scale |-> r.scale, seed |-> r.seed]

\* timestamp is computed once per call, so within a call a result file is
\* named by the index i of enumerate(images)
ResultPath(i) == i - 1

ImagesOf(n) == [i \in 1 .. n |-> i]

PiValidate ==
    /\ pc = "pi_validate"
    /\ LET v == validate_request(RequestData(req))
           conv == validate_and_convert_category(req.category, req.model_type)
       IN IF ~v.ok \/ conv.raised
          THEN /\ StageRaisesNaming("process_image", "ValidationError",
                                    IF ~v.ok THEN {v.errors[i] : i \in 1 .. Len(v.errors)}
                                    ELSE {conv.field})
               /\ UNCHANGED category
          ELSE StagePasses("process_image", "Loading") /\ category' = IntCat(conv.value)
    /\ UNCHANGED <<req, args, caller, called, region, synthcat, images, result_paths,
                   result_images, disk, temps, tpaths, response, bg, tracked, builtNow,
                   models_initialized, svLoaded, cacheVars, others>>

PiLoad ==
    /\ pc = "pi_load"
    /\ \E ok \in BOOLEAN :
          IF ok THEN StagePasses("process_image", "PoseEstimating")
          ELSE StageRaises("process_image", "OSError")
    /\ UNCHANGED <<req, args, caller, called, region, synthcat, category, images,
                   result_paths, result_images, disk, temps, tpaths, response, bg,
                   tracked, builtNow, models_initialized, svLoaded, cacheVars, others>>

PiPose ==
    /\ pc = "pi_pose"
    /\ called' = called \cup {"pose"}
    /\ \E ok \in BOOLEAN :
          IF ok THEN StagePasses("process_image", "Parsing")
          ELSE \E kind \in OpaqueFailures : StageRaises("process_image", kind)
    /\ UNCHANGED <<req, args, caller, region, synthcat, category, images, result_paths,
                   result_images, disk, temps, tpaths, response, bg, tracked, builtNow,
                   models_initialized, svLoaded, cacheVars, others>>

PiParse ==
    /\ pc = "pi_parse"
    /\ called' = called \cup {"parse"}
    /\ \E ok \in BOOLEAN :
          IF ok THEN StagePasses("process_image", "Masking")
          ELSE \E kind \in OpaqueFailures : StageRaises("process_image", kind)
    /\ UNCHANGED <<req, args, caller, region, synthcat, category, images, result_paths,
                   result_images, disk, temps, tpaths, response, bg, tracked, builtNow,
                   models_initialized, svLoaded, cacheVars, others>>

PiMask ==
    /\ pc = "pi_mask"
    /\ IF ~IndexOk(category, category_dict_utils)
       THEN StageRaises("process_image", "IndexError") /\ UNCHANGED <<called, region>>
       ELSE /\ called' = called \cup {"mask"}
            /\ region' = Index(category, category_dict_utils)
            /\ \E ok \in BOOLEAN :
                  IF ok THEN StagePasses("process_image", "Synthesizing")
                  ELSE \E kind \in OpaqueFailures : StageRaises("process_image", kind)
    /\ UNCHANGED <<req, args, caller, synthcat, category, images, result_paths,
                   result_images, disk, temps, tpaths, response, bg, tracked, builtNow,
                   models_initialized, svLoaded, cacheVars, others>>

PiSynth ==
    /\ pc = "pi_synth"
    /\ IF ~IndexOk(category, category_dict)
       THEN StageRaises("process_image", "IndexError") /\ UNCHANGED <<called, synthcat, images>>
       ELSE /\ called' = called \cup {"synth"}
            /\ synthcat' = Index(category, category_dict)
            /\ \/ /\ \E kind \in OpaqueFailures : StageRaises("process_image", kind)
                  /\ UNCHANGED images
               \/ \E n \in 0 .. MaxReturned :
                     /\ images' = ImagesOf(n)
                     /\ StagePasses("process_image", "Persisting")
    /\ UNCHANGED <<req, args, caller, region, category, result_paths, result_images,
                   disk, temps, tpaths, response, bg, tracked, builtNow,
                   models_initialized, svLoaded, cacheVars, others>>

\* an enumeration that hands out the images last to first
NextImageReversed(imgs, done) == imgs[Len(imgs) - Len(done)]
\* the img of the turn of "for i, img in enumerate(images)" that follows the
\* turns already done
NextImage(imgs, done) == imgs[Len(done) + 1]

\* the image stored in the file of a path
ContentAt(files, path) == (CHOOSE f \in files : f.path = path).img

\* one turn of the loop "for i, img in enumerate(images)", or its end
PiPersist ==
    /\ pc = "pi_persist"
    /\ IF Len(result_paths) < Len(images)
       THEN LET path == ResultPath(Len(result_paths) + 1)
                img == NextImage(images, result_paths)
            IN \/ /\ disk' = {f \in disk : f.path # path} \cup {[path |-> path, img |-> img]}
                  /\ result_paths' = Append(result_paths, path)
                  /\ UNCHANGED <<pc, stage, hist, exc>>
               \/ /\ StageRaises("process_image", "OSError")
                  /\ UNCHANGED <<disk, result_paths>>
       ELSE /\ StagePasses("process_image", "Done")
            /\ UNCHANGED <<disk, result_paths>>
    /\ UNCHANGED <<req, args, caller, called, region, synthcat, category, images,
                   result_images, temps, tpaths, response, bg, tracked, builtNow,
                   models_initialized, svLoaded, cacheVars, others>>


(***************************************************************************)
(* process_images (api/app.py), the FastAPI endpoint.                      *)
(***************************************************************************)
\* the except clauses of process_images: the HTTPException raised for e
ApiErrorResponse(e) ==
    IF e.kind = "ValidationError"
    THEN Failure(Resp("400", FALSE, <<>>, <<>>, "ValidationError"), "ValidationError", e, FALSE)
    ELSE IF e.kind = "ProcessingError"
    THEN Failure(Resp("500", FALSE, <<>>, <<>>, "Processing failed"), "ProcessingError", e, FALSE)
    ELSE IF IsOOTDError(e)
    THEN Failure(Resp("500", FALSE, <<>>, <<>>, "Error"), "", e, FALSE)
    ELSE Resp("500", FALSE, <<>>, <<>>, "Internal server error")

\* "if not model_manager.models_loaded: raise HTTPException(status_code=503, ...)"
get_model_managerRaises == Resp("503", FALSE, <<>>, <<>>, "Models not loaded")

\* File(...) parameters are required and ProcessRequest = Depends() enforces
\* its Field constraints before the endpoint body runs
ApiDepends ==
    /\ pc = "api_depends"
    /\ IF ~(req.model_file.present /\ req.cloth_file.present /\ ProcessRequestOk(req))
       THEN /\ response' = [Resp("422", FALSE, <<>>, <<>>, "Unprocessable Entity")
                               EXCEPT !.kind = "RequestValidationError",
                                      !.names = DependsErrors(req)]
            /\ pc' = "finished"
       ELSE IF ~models_loaded
       THEN /\ response' = get_model_managerRaises
            /\ pc' = "finished"
       ELSE pc' = "api_ctype" /\ UNCHANGED response
    /\ UNCHANGED <<req, args, caller, stage, hist, called, region, synthcat, category, exc,
                   images, result_paths, result_images, disk, temps, tpaths, bg, tracked,
                   builtNow, models_initialized, svLoaded, cacheVars, others>>

\* the content-type checks raise inside the try block; create_temp_file
\* only computes the two paths
ApiContentType ==
    /\ pc = "api_ctype"
    /\ IF req.model_file.ctype_image /\ req.cloth_file.ctype_image
       THEN /\ tpaths' = {"model", "cloth"}
            /\ pc' = "api_save_model"
            /\ UNCHANGED exc
       ELSE /\ exc' = RaiseNaming("HTTPException", stage,
                                   IF ~req.model_file.ctype_image THEN {"Model file"}
                                   ELSE {"Cloth file"})
            /\ pc' = "api_after"
            /\ UNCHANGED tpaths
    /\ UNCHANGED <<req, args, caller, stage, hist, called, region, synthcat, category,
                   images, result_paths, result_images, disk, temps, response, bg, tracked,
                   builtNow, models_initialized, svLoaded, cacheVars, others>>

\* open(path, "wb") creates the file, copyfileobj fills it
ApiSave(which, here, next) ==
    /\ pc = here
    /\ \E outcome \in {"ok", "open_fails", "copy_fails"} :
          /\ temps' = IF outcome = "open_fails" THEN temps ELSE temps \cup {which}
          /\ IF outcome = "ok"
             THEN IF next = "pi_validate"
                  THEN StagePasses("process_image", "Validating")
                  ELSE pc' = next /\ UNCHANGED <<exc, stage, hist>>
             ELSE /\ exc' = Raise("OSError", stage)
                  /\ pc' = "api_after"
                  /\ UNCHANGED <<stage, hist>>
    /\ UNCHANGED <<req, args, caller, called, region, synthcat, category, images,
                   result_paths, result_images, disk, tpaths, response, bg, tracked,
                   builtNow, models_initialized, svLoaded, cacheVars, others>>

ApiSaveModel == ApiSave("model", "api_save_model", "api_save_cloth")

ApiSaveCloth == ApiSave("cloth", "api_save_cloth", "pi_validate")

\* the return statement, or the except clause that matches
ApiAfter ==
    /\ pc = "api_after"
    /\ IF exc = NoExc
       THEN /\ bg' = TRUE
            /\ response' = Resp("200", TRUE, result_paths, <<>>, "Images processed successfully")
            /\ UNCHANGED tracked
       ELSE /\ response' = ApiErrorResponse(exc)
            /\ tracked' = IF IsOOTDError(exc) THEN tracked ELSE tracked + 1
            /\ UNCHANGED bg
    /\ pc' = "api_finally"
    /\ UNCHANGED <<req, args, caller, stage, hist, called, region, synthcat, category, exc,
                   images, result_paths, result_images, disk, temps, tpaths, builtNow,
                   models_initialized, svLoaded, cacheVars, others>>

\* the files a finally clause tries to unlink, in order, when unlink number
\* failAt raises (0: none does)
Unlinked(order, failAt) ==
    {order[i] : i \in {j \in 1 .. Len(order) : failAt = 0 \/ j < failAt}}

\* finally: unlink model_temp_path, then cloth_temp_path, each if set and
\* existing; an unlink that raises leaves the clause
ApiFinally ==
    /\ pc = "api_finally"
    /\ LET order == SelectSeq(<<"model", "cloth">>, LAMBDA f : f \in tpaths /\ f \in temps)
       IN \E failAt \in 0 .. Len(order) :
             /\ temps' = temps \ Unlinked(order, failAt)
             /\ IF failAt = 0
                THEN /\ pc' = IF bg THEN "api_background" ELSE "finished"
                     /\ UNCHANGED <<response, bg>>
                ELSE /\ response' = Resp("500", FALSE, <<>>, <<>>, "Internal Server Error")
                     /\ bg' = FALSE
                     /\ pc' = "finished"
    /\ UNCHANGED <<req, args, caller, stage, hist, called, region, synthcat, category, exc,
                   images, result_paths, result_images, disk, tpaths, tracked, builtNow,
                   models_initialized, svLoaded, cacheVars, others>>

\* a cleanup that unlinks without testing exists() and without catching
cleanup_temp_filesUnguarded ==
    /\ pc = "api_background"
    /\ IF tpaths \ temps # {}
       THEN exc' = Raise("FileNotFoundError", stage) /\ UNCHANGED temps
       ELSE temps' = temps \ tpaths /\ UNCHANGED exc
    /\ bg' = FALSE
    /\ pc' = "finished"
    /\ UNCHANGED <<req, args, caller, stage, hist, called, region, synthcat, category,
                   images, result_paths, result_images, disk, tpaths, response, tracked,
                   builtNow, models_initialized, svLoaded, cacheVars, others>>
\* cleanup_temp_files, run after the response: unlink what still exists, an
\* unlink that raises is logged
cleanup_temp_files ==
    /\ pc = "api_background"
    /\ \E failed \in SUBSET (temps \cap tpaths) : temps' = (temps \ tpaths) \cup failed
    /\ bg' = FALSE
    /\ pc' = "finished"
    /\ UNCHANGED <<req, args, caller, stage, hist, called, region, synthcat, category, exc,
                   images, result_paths, result_images, disk, tpaths, response, tracked,
                   builtNow, models_initialized, svLoaded, cacheVars, others>>

(***************************************************************************)
(* RunPodHandler._handle_process (handler.py).                             *)
(***************************************************************************)
\* an except clause that handed back what had been produced so far
RpErrorDictPartial(e) ==
    Failure(Resp("error", FALSE, result_paths, result_images, e.kind), "", e, TRUE)
\* the dict of the outer except clause
RpErrorDict(e) == Failure(Resp("error", FALSE, <<>>, <<>>, e.kind), "", e, TRUE)

\* a handler that creates the temp files without looking at the inputs first
RpExtractLate ==
    /\ pc = "rp_extract"
    /\ pc' = "rp_temp_model"
    /\ UNCHANGED <<req, args, caller, stage, hist, called, region, synthcat, category, exc,
                   images, result_paths, result_images, disk, temps, tpaths, response, bg,
                   tracked, builtNow, models_initialized, svLoaded, cacheVars, others>>
\* "if not model_file or not cloth_file: return {...}"
RpExtract ==
    /\ pc = "rp_extract"
    /\ IF ~req.model_file.present \/ ~req.cloth_file.present
       THEN /\ response' = [Resp("error", FALSE, <<>>, <<>>,
                                    "Both model_file and cloth_file are required")
                               EXCEPT !.names = {"model_file", "cloth_file"}]
            /\ pc' = "finished"
       ELSE pc' = "rp_temp_model" /\ UNCHANGED response
    /\ UNCHANGED <<req, args, caller, stage, hist, called, region, synthcat, category, exc,
                   images, result_paths, result_images, disk, temps, tpaths, bg, tracked,
                   builtNow, models_initialized, svLoaded, cacheVars, others>>

\* NamedTemporaryFile(delete=False) creates the file; decoding or copying
\* the upload into it may raise, which leaves through the outer except
RpTemp(which, upload, here, next) ==
    /\ pc = here
    /\ temps' = temps \cup {which}
    /\ \E io_ok \in BOOLEAN :
          IF io_ok /\ upload.decodable
          THEN /\ tpaths' = tpaths \cup {which}
               /\ pc' = next
               /\ UNCHANGED <<exc, response>>
          ELSE /\ exc' = Raise("OSError", stage)
               /\ response' = RpErrorDict(Raise("OSError", stage))
               /\ pc' = "finished"
               /\ UNCHANGED tpaths
    /\ UNCHANGED <<req, args, caller, stage, hist, called, region, synthcat, category,
                   images, result_paths, result_images, disk, bg, tracked, builtNow,
                   models_initialized, svLoaded, cacheVars, others>>

RpTempModel == RpTemp("model", req.model_file, "rp_temp_model", "rp_temp_cloth")

RpTempCloth == RpTemp("cloth", req.cloth_file, "rp_temp_cloth", "rp_request")

\* ProcessRequest(...) inside the inner try
RpRequest ==
    /\ pc = "rp_request"
    /\ IF ProcessRequestOk(req)
       THEN StagePasses("process_image", "Validating")
       ELSE /\ exc' = Raise("PydanticValidationError", stage)
            /\ pc' = "rp_finally"
            /\ UNCHANGED <<stage, hist>>
    /\ UNCHANGED <<req, args, caller, called, region, synthcat, category, images,
                   result_paths, result_images, disk, temps, tpaths, response, bg, tracked,
                   builtNow, models_initialized, svLoaded, cacheVars, others>>

\* the loop that reads every result file back; an open that fails raises
RpReadBack ==
    /\ pc = "rp_readback"
    /\ \/ /\ result_images' = [i \in 1 .. Len(result_paths) |-> ContentAt(disk, result_paths[i])]
          /\ UNCHANGED exc
       \/ /\ result_paths # <<>>
          /\ exc' = Raise("OSError", "ReadBack")
          /\ UNCHANGED result_images
    /\ pc' = "rp_finally"
    /\ UNCHANGED <<req, args, caller, stage, hist, called, region, synthcat, category,
                   images, result_paths, disk, temps, tpaths, response, bg, tracked,
                   builtNow, models_initialized, svLoaded, cacheVars, others>>

\* finally: try: os.unlink(model_path); os.unlink(cloth_path) except: pass,
\* then the return value or the outer except clause
RpFinally ==
    /\ pc = "rp_finally"
    /\ \E failAt \in 0 .. 2 :
          temps' = temps \ Unlinked(<<"model", "cloth">>, failAt)
    /\ response' = IF exc = NoExc
                   THEN Resp("success", TRUE, result_paths, result_images, "Images processed successfully")
                   ELSE RpErrorDict(exc)
    /\ pc' = "finished"
    /\ UNCHANGED <<req, args, caller, stage, hist, called, region, synthcat, category, exc,
                   images, result_paths, result_images, disk, tpaths, bg, tracked, builtNow,
                   models_initialized, svLoaded, cacheVars, others>>


(***************************************************************************)
(* run.inference (run/inference.py).                                       *)
(***************************************************************************)
\* initialize_models run by one caller alone: every global that is None is
\* constructed, in order, until construction number failAt raises (0: none)
InitializeModels(g, n, failAt) ==
    LET last == IF failAt = 0 THEN Len(InitOrder) ELSE failAt - 1
        built == {InitOrder[i] : i \in {j \in 1 .. last : g[InitOrder[j]] = 0}}
    IN [built |-> built,
        gmodel |-> [m \in ModelNames |-> IF m \in built THEN n[m] + 1 ELSE g[m]],
        ncons |-> [m \in ModelNames |-> IF m \in built THEN n[m] + 1 ELSE n[m]]]

InfInit ==
    /\ pc = "inf_init"
    /\ \E failAt \in {0} \cup {i \in 1 .. Len(InitOrder) : gmodel[InitOrder[i]] = 0} :
          LET r == InitializeModels(gmodel, ncons, failAt)
          IN /\ gmodel' = r.gmodel
             /\ ncons' = r.ncons
             /\ gdevice' = [m \in ModelNames |->
                               IF m \in r.built THEN args.gpu_id ELSE gdevice[m]]
             /\ builtNow' = builtNow \cup r.built
             /\ IF failAt = 0
                THEN StagePasses("inference", "Validating")
                ELSE StageRaises("inference", "RuntimeError")
    /\ UNCHANGED <<req, args, caller, called, region, synthcat, category, images,
                   result_paths, result_images, disk, temps, tpaths, response, bg, tracked,
                   models_initialized, svLoaded, others>>

\* "Convert garment_type to category if needed"
GarmentCategory(garment_type, c) ==
    CASE garment_type = "upper" -> IntCat(0)
      [] garment_type = "lower" -> IntCat(1)
      [] garment_type = "dress" -> IntCat(2)
      [] OTHER -> c

InfValidate ==
    /\ pc = "inf_validate"
    /\ LET c == GarmentCategory(args.garment_type, args.category)
       IN /\ category' = c
          /\ IF args.model_type = "hd" /\ c # IntCat(0)
             THEN StageRaises("inference", "ValueError")
             ELSE StagePasses("inference", "Loading")
    /\ UNCHANGED <<req, args, caller, called, region, synthcat, images, result_paths,
                   result_images, disk, temps, tpaths, response, bg, tracked, builtNow,
                   models_initialized, svLoaded, cacheVars, others>>

\* base64_to_image and resize: the image must be there, decode and load
LoadOk(u) == u.present /\ u.decodable /\ u.file.verifies

InfLoad ==
    /\ pc = "inf_load"
    /\ IF LoadOk(args.user_image) /\ LoadOk(args.cloth_image)
       THEN StagePasses("inference", "PoseEstimating")
       ELSE StageRaises("inference", "ValueError")
    /\ UNCHANGED <<req, args, caller, called, region, synthcat, category, images,
                   result_paths, result_images, disk, temps, tpaths, response, bg, tracked,
                   builtNow, models_initialized, svLoaded, cacheVars, others>>

InfPose ==
    /\ pc = "inf_pose"
    /\ called' = called \cup {"pose"}
    /\ \E ok \in BOOLEAN :
          IF ok THEN StagePasses("inference", "Parsing")
          ELSE StageRaises("inference", "RuntimeError")
    /\ UNCHANGED <<req, args, caller, region, synthcat, category, images, result_paths,
                   result_images, disk, temps, tpaths, response, bg, tracked, builtNow,
                   models_initialized, svLoaded, cacheVars, others>>

InfParse ==
    /\ pc = "inf_parse"
    /\ called' = called \cup {"parse"}
    /\ \E ok \in BOOLEAN :
          IF ok THEN StagePasses("inference", "Masking")
          ELSE StageRaises("inference", "RuntimeError")
    /\ UNCHANGED <<req, args, caller, region, synthcat, category, images, result_paths,
                   result_images, disk, temps, tpaths, response, bg, tracked, builtNow,
                   models_initialized, svLoaded, cacheVars, others>>

\* category_dict_utils[category] is evaluated before get_mask_location is called
InfMask ==
    /\ pc = "inf_mask"
    /\ IF ~IndexOk(category, category_dict_utils)
       THEN StageRaises("inference", "IndexError") /\ UNCHANGED <<called, region>>
       ELSE /\ called' = called \cup {"mask"}
            /\ region' = Index(category, category_dict_utils)
            /\ \E ok \in BOOLEAN :
                  IF ok THEN StagePasses("inference", "Synthesizing")
                  ELSE StageRaises("inference", "RuntimeError")
    /\ UNCHANGED <<req, args, caller, synthcat, category, images, result_paths,
                   result_images, disk, temps, tpaths, response, bg, tracked, builtNow,
                   models_initialized, svLoaded, cacheVars, others>>

\* "Select model" raises for a model type that is neither hd nor dc; then
\* the synthesizer is called
InfSynth ==
    /\ pc = "inf_synth"
    /\ IF args.model_type \notin {"hd", "dc"}
       THEN StageRaises("inference", "ValueError") /\ UNCHANGED <<called, synthcat, images>>
       ELSE IF ~IndexOk(category, category_dict)
       THEN StageRaises("inference", "IndexError") /\ UNCHANGED <<called, synthcat, images>>
       ELSE /\ called' = called \cup {"synth"}
            /\ synthcat' = Index(category, category_dict)
            /\ \/ /\ StageRaises("inference", "RuntimeError")
                  /\ UNCHANGED images
               \/ \E n \in 0 .. MaxReturned :
                     /\ images' = ImagesOf(n)
                     /\ StagePasses("inference", "Persisting")
    /\ UNCHANGED <<req, args, caller, region, category, result_paths, result_images,
                   disk, temps, tpaths, response, bg, tracked, builtNow,
                   models_initialized, svLoaded, cacheVars, others>>

\* "Convert results to base64": every returned image, in order
InfEncode ==
    /\ pc = "inf_persist"
    /\ \/ /\ result_images' = images
          /\ StagePasses("inference", "Done")
       \/ /\ images # <<>>
          /\ StageRaises("inference", "OSError")
          /\ UNCHANGED result_images
    /\ UNCHANGED <<req, args, caller, called, region, synthcat, category, images,
                   result_paths, disk, temps, tpaths, response, bg, tracked, builtNow,
                   models_initialized, svLoaded, cacheVars, others>>

(***************************************************************************)
(* handler and initialize_models (runpod_handler.py), and the callers of   *)
(* inference.                                                              *)
(***************************************************************************)
SvError(detail) == Resp("error", FALSE, <<>>, <<>>, detail)
\* the dict of handler's except clause: "Handler error: " + str(e), and the traceback
SvHandlerError(e) == Failure(SvError("Handler error"), "", e, TRUE)

\* handler() once initialize_models() has returned True: the required inputs,
\* then the call of inference_function
SvRun(r) ==
    IF ~r.model_file.present
    THEN /\ response' = SvError("Missing required input: user_image")
         /\ pc' = "finished"
         /\ UNCHANGED <<args, caller, stage, hist, exc>>
    ELSE IF ~r.cloth_file.present
    THEN /\ response' = SvError("Missing required input: cloth_image")
         /\ pc' = "finished"
         /\ UNCHANGED <<args, caller, stage, hist, exc>>
    ELSE /\ args' = ArgsOf(r)
         /\ caller' = "job"
         /\ pc' = "inf_init"
         /\ stage' = "none"
         /\ hist' = <<>>
         /\ exc' = NoExc
         /\ UNCHANGED response

\* the module-level call initialize_models() of runpod_handler.py
SvModuleLoad ==
    /\ pc = "idle"
    /\ ~svLoaded
    /\ app = "unloaded"
    /\ args' = DummyArgs
    /\ caller' = "module_load"
    /\ pc' = "inf_init"
    /\ UNCHANGED <<req, stage, hist, called, region, synthcat, category, exc, images,
                   result_paths, result_images, disk, temps, tpaths, response, bg, tracked,
                   builtNow, models_initialized, svLoaded, cacheVars, others>>

\* a request arrives on one of the transports
Receive ==
    /\ pc = "idle"
    /\ \E r \in Requests :
          /\ r.transport = "serverless" => svLoaded
          /\ r.transport \in {"api", "runpod"} => ~svLoaded
          \* the server answers once api.app is imported; the command line and
          \* runpod_handler.py never import it
          /\ r.transport = "api" => app = "up"
          \* a caller names a device the machine has
          /\ r.gpu_id = 0 \/ r.gpu_id < gpus
          /\ r.transport \in {"direct", "serverless"} => app = "unloaded"
          /\ req' = r
          /\ CASE r.transport = "api" ->
                    pc' = "api_depends" /\ UNCHANGED <<args, caller, response, stage, hist, exc>>
               [] r.transport = "runpod" ->
                    pc' = "rp_setup" /\ UNCHANGED <<args, caller, response, stage, hist, exc>>
               [] r.transport = "direct" ->
                    /\ args' = ArgsOf(r)
                    /\ caller' = "direct"
                    /\ pc' = "inf_init"
                    /\ UNCHANGED <<response, stage, hist, exc>>
               [] OTHER ->
                    IF models_initialized
                    THEN SvRun(r)
                    ELSE /\ args' = DummyArgs
                         /\ caller' = "warmup"
                         /\ pc' = "inf_init"
                         /\ UNCHANGED <<response, stage, hist, exc>>
    /\ UNCHANGED <<called, region, synthcat, category, images, result_paths,
                   result_images, disk, temps, tpaths, bg, tracked, builtNow,
                   models_initialized, svLoaded, cacheVars, others>>

\* inference returns or raises to its caller
InfReturn ==
    /\ pc = "inf_return"
    /\ CASE caller = "direct" ->
              /\ response' = IF exc = NoExc
                             THEN Resp("returned", TRUE, <<>>, result_images, "")
                             ELSE Failure(Resp("raised", FALSE, <<>>, <<>>, exc.kind),
                                          exc.kind, exc, TRUE)
              /\ pc' = "finished"
              /\ UNCHANGED <<args, caller, stage, hist, exc, called, builtNow, category,
                             images, result_images, region, synthcat,
                             models_initialized, svLoaded>>
         [] caller = "module_load" ->
              /\ models_initialized' = (exc = NoExc)
              /\ svLoaded' = TRUE
              /\ pc' = "idle"
              /\ args' = NoArgs /\ caller' = "none" /\ stage' = "none" /\ hist' = <<>>
              /\ exc' = NoExc /\ called' = {} /\ builtNow' = {} /\ category' = NoCat
              /\ images' = <<>> /\ result_images' = <<>> /\ region' = "" /\ synthcat' = ""
              /\ UNCHANGED response
         [] caller = "warmup" ->
              /\ models_initialized' = (exc = NoExc)
              /\ UNCHANGED <<called, builtNow, category, images, result_images, region,
                             synthcat, svLoaded>>
              /\ IF exc = NoExc
                 THEN SvRun(req)
                 ELSE /\ response' = SvError("Failed to initialize models")
                      /\ pc' = "finished"
                      /\ UNCHANGED <<args, caller, stage, hist, exc>>
         [] OTHER ->
              /\ response' = IF exc = NoExc
                             THEN Resp("output", TRUE, <<>>, result_images, "")
                             ELSE SvHandlerError(exc)
              /\ pc' = "finished"
              /\ UNCHANGED <<args, caller, stage, hist, exc, called, builtNow, category,
                             images, result_images, region, synthcat,
                             models_initialized, svLoaded>>
    /\ UNCHANGED <<req, result_paths, disk, temps, tpaths, bg, tracked, cacheVars, others>>

Next ==
    \/ Receive \/ SvModuleLoad \/ AppImport \/ RpSetup
    \/ ApiDepends \/ ApiContentType \/ ApiSaveModel \/ ApiSaveCloth \/ ApiAfter
    \/ ApiFinally \/ cleanup_temp_files
    \/ RpExtract \/ RpTempModel \/ RpTempCloth \/ RpRequest \/ RpReadBack \/ RpFinally
    \/ PiValidate \/ PiLoad \/ PiPose \/ PiParse \/ PiMask \/ PiSynth \/ PiPersist
    \/ InfInit \/ InfValidate \/ InfLoad \/ InfPose \/ InfParse \/ InfMask \/ InfSynth
    \/ InfEncode \/ InfReturn

Spec == Init /\ [][Next]_vars


(***************************************************************************)
(* The readiness wait of RunPodHandler.setup, run against a model manager  *)
(* that is still loading when the import returns.  ModelManager() of       *)
(* api/app.py loads inside its constructor, so with it the flag is set     *)
(* before the first test of the loop; the loop itself polls whatever       *)
(* manager the import hands over, every five seconds, up to 300 seconds.   *)
(***************************************************************************)
SetupRequests == {r \in UploadRequests : r.transport = "runpod"}

\* the loop of setup with "wait_time += 5" left out
SetupPollUncounted ==
    /\ pc = "rp_wait"
    /\ ~models_loaded /\ wait_time < max_wait_time
    /\ UNCHANGED vars

\* "while not model_manager.models_loaded and wait_time < max_wait_time:
\*      await asyncio.sleep(5); wait_time += 5"
SetupPoll ==
    /\ pc = "rp_wait"
    /\ ~models_loaded /\ wait_time < max_wait_time
    /\ wait_time' = wait_time + poll_interval
    /\ UNCHANGED <<pipeVars, cacheVars, concVars, valVars, nameVars, trackVars, tempVars, dlVars, gpus, app, mm_models,
                   mm_device, models_loaded, setup_complete>>

\* the manager finishes loading while setup sleeps
ManagerLoads ==
    /\ pc = "rp_wait"
    /\ ~models_loaded
    /\ models_loaded' = TRUE
    /\ mm_models' = ModelKeySet
    /\ mm_device' = load_models(gpus, 0).device
    /\ UNCHANGED <<pipeVars, cacheVars, concVars, valVars, nameVars, trackVars, tempVars, dlVars, gpus, app,
                   setup_complete, wait_time>>

\* the loop has ended: "if not model_manager.models_loaded: raise RuntimeError(...)",
\* else setup_complete is set and handler goes on with the request
SetupAfterWait ==
    /\ pc = "rp_wait"
    /\ models_loaded \/ wait_time >= max_wait_time
    /\ LET e == SetupRaises(models_loaded)
       IN /\ setup_complete' = (e = NoExc)
          /\ IF e = NoExc
             THEN pc' = "rp_extract" /\ UNCHANGED response
             ELSE pc' = "finished" /\ response' = RpHandlerError(e)
    /\ UNCHANGED <<req, args, caller, stage, hist, called, region, synthcat, category, exc,
                   images, result_paths, result_images, disk, temps, tpaths, bg, tracked,
                   builtNow, models_initialized, svLoaded, cacheVars, concVars, valVars,
                   nameVars, trackVars, tempVars, dlVars, gpus, app, mm_models, mm_device, models_loaded, wait_time>>

NextSetup == SetupPoll \/ ManagerLoads \/ SetupAfterWait \/ RpExtract

InitSetup ==
    /\ pc = "rp_wait" /\ req \in SetupRequests /\ args = NoArgs /\ caller = "none"
    /\ stage = "none" /\ hist = <<>> /\ called = {} /\ region = "" /\ synthcat = ""
    /\ category = NoCat /\ exc = NoExc /\ images = <<>> /\ result_paths = <<>>
    /\ result_images = <<>> /\ disk = {} /\ temps = {} /\ tpaths = {}
    /\ response = NoResp /\ bg = FALSE /\ tracked = 0 /\ builtNow = {}
    /\ models_initialized = FALSE /\ svLoaded = FALSE
    /\ CacheInit /\ ConcParked /\ ValParked /\ NameParked /\ TrackParked /\ TempParked /\ DlParked
    /\ gpus = 1 /\ app = "up" /\ mm_models = {}
    /\ mm_device = [k \in ModelKeySet |-> NoDevice]
    /\ models_loaded = FALSE /\ setup_complete = FALSE /\ wait_time = 0

SpecSetup == InitSetup /\ [][NextSetup]_vars

\* asyncio.sleep returns and the coroutine is resumed: the loop and the code
\* after it run whenever they can; nothing obliges the manager to load
SpecSetupFair == SpecSetup /\ WF_vars(SetupPoll) /\ WF_vars(SetupAfterWait)


(***************************************************************************)
(* ErrorTracker (utils/error_handling.py).  Every process that imports the *)
(* module constructs one, on the file error_tracker.json of its working    *)
(* directory; workers started in one directory share the file.             *)
(***************************************************************************)
Trackers == 1 .. MaxTrackers

\* the dict track_error builds
ErrorRecord(n, w) ==
    [id |-> n, by |-> w,
     keys |-> {"timestamp", "error_type", "error_message", "context", "traceback"}]

\* ErrorTracker.__init__ of every worker: errors = [], load_errors() finds no file
TrackerInit ==
    /\ log_exists = FALSE /\ log_file = <<>>
    /\ errors = [w \in Trackers |-> <<>>]
    /\ ever_tracked = <<>> /\ save_failed = FALSE

\* open(log_file, 'w') and json.dump(self.errors): the file then holds the
\* list of this tracker; an exception while writing is logged and swallowed
Written(w, mine, ok) ==
    IF ok
    THEN log_exists' = TRUE /\ log_file' = mine /\ UNCHANGED save_failed
    ELSE save_failed' = TRUE /\ UNCHANGED <<log_exists, log_file>>

\* track_error: append to self.errors, then save_errors()
track_error(w) ==
    /\ Len(ever_tracked) < MaxRecords
    /\ LET r == ErrorRecord(Len(ever_tracked) + 1, w)
           mine == Append(errors[w], r)
       IN /\ errors' = [errors EXCEPT ![w] = mine]
          /\ ever_tracked' = Append(ever_tracked, r)
          /\ \E ok \in BOOLEAN : Written(w, mine, ok)
    /\ UNCHANGED <<pipeVars, cacheVars, concVars, valVars, nameVars, mgrVars, tempVars, dlVars>>

\* load_errors: self.errors becomes what the file holds, if the file exists
load_errors(w) ==
    /\ log_exists
    /\ errors[w] # log_file
    /\ errors' = [errors EXCEPT ![w] = log_file]
    /\ UNCHANGED <<log_exists, log_file, ever_tracked, save_failed,
                   pipeVars, cacheVars, concVars, valVars, nameVars, mgrVars, tempVars, dlVars>>

\* save_errors called on its own
save_errors(w) ==
    /\ \E ok \in BOOLEAN : Written(w, errors[w], ok)
    /\ UNCHANGED <<errors, ever_tracked,
                   pipeVars, cacheVars, concVars, valVars, nameVars, mgrVars, tempVars, dlVars>>

NextTracker == \E w \in Trackers : track_error(w) \/ load_errors(w) \/ save_errors(w)

InitTracker ==
    PipeParked /\ CacheInit /\ ConcParked /\ ValParked /\ NameParked /\ MgrParked /\ TrackerInit /\ TempParked /\ DlParked

SpecTracker == InitTracker /\ [][NextTracker]_vars


(***************************************************************************)
(* initialize_models of run/inference.py called by several requests at     *)
(* once.  A caller tests a global against None, constructs the model and   *)
(* assigns the global; the globals are then read where inference uses      *)
(* them.  Nothing in the module takes a lock.                              *)
(***************************************************************************)
Threads == 1 .. MaxThreads
Profiles == {"hd", "dc"}

\* the globals inference reads for a profile, in the order it reads them
UseOrder(profile) ==
    <<"openpose_model", "parsing_model", IF profile = "hd" THEN "hd_model" ELSE "dc_model">>

At(at, i, profile) == [at |-> at, i |-> i, profile |-> profile]

ConcInit ==
    /\ \E profile \in Profiles : tpc = [t \in Threads |-> At("check", 1, profile)]
    /\ tuse = [t \in Threads |-> [m \in ModelNames |-> 0]]

\* what follows the if-statement number i of initialize_models
AfterIf(i, profile) ==
    IF i < Len(InitOrder) THEN At("check", i + 1, profile) ELSE At("use", 1, profile)

\* "if <global> is None:"
InitCheck(t) ==
    /\ tpc[t].at = "check"
    /\ tpc' = [tpc EXCEPT ![t] =
                 IF gmodel[InitOrder[tpc[t].i]] = 0
                 THEN At("build", tpc[t].i, tpc[t].profile)
                 ELSE AfterIf(tpc[t].i, tpc[t].profile)]
    /\ UNCHANGED <<tuse, cacheVars, pipeVars, mgrVars, trackVars, tempVars, dlVars, valVars, nameVars>>

\* "<global> = Model(gpu_id)": a new instance is constructed and assigned
InitConstruct(t) ==
    /\ tpc[t].at = "build"
    /\ LET m == InitOrder[tpc[t].i]
       IN /\ ncons' = [ncons EXCEPT ![m] = @ + 1]
          /\ gmodel' = [gmodel EXCEPT ![m] = ncons[m] + 1]
          /\ gdevice' = [gdevice EXCEPT ![m] = 0]
    /\ tpc' = [tpc EXCEPT ![t] = AfterIf(tpc[t].i, tpc[t].profile)]
    /\ UNCHANGED <<tuse, pipeVars, mgrVars, trackVars, tempVars, dlVars, valVars, nameVars>>

\* inference reads a global to call the model it holds
InitUse(t) ==
    /\ tpc[t].at = "use"
    /\ LET order == UseOrder(tpc[t].profile)
           m == order[tpc[t].i]
       IN /\ tuse' = [tuse EXCEPT ![t][m] = gmodel[m]]
          /\ tpc' = [tpc EXCEPT ![t] =
                       IF tpc[t].i < Len(order)
                       THEN At("use", tpc[t].i + 1, tpc[t].profile)
                       ELSE At("done", 0, tpc[t].profile)]
    /\ UNCHANGED <<cacheVars, pipeVars, mgrVars, trackVars, tempVars, dlVars, valVars, nameVars>>

NextInit == \E t \in Threads : InitCheck(t) \/ InitConstruct(t) \/ InitUse(t)

InitThreads == PipeParked /\ CacheInit /\ ConcInit /\ ValParked /\ NameParked /\ MgrParked /\ TrackParked /\ TempParked /\ DlParked

SpecInit == InitThreads /\ [][NextInit]_vars

(***************************************************************************)
(* validate_request applied to one request_data dict.                      *)
(***************************************************************************)
RequestDict(missing, mp, cp, mt, c, n, steps, scale, seed) ==
    [present |-> AllKeys \ missing, model_path |-> mp, cloth_path |-> cp,
     model_type |-> mt, category |-> c, samples |-> n, steps |-> steps,
     scale |-> scale, seed |-> seed]

ValRequests ==
    {RequestDict(missing, mp, cp, mt, c, n, steps, scale, seed) :
        missing \in SUBSET {"model_path", "cloth_path", "samples", "seed"},
        mp \in {GoodImage, Corrupt}, cp \in {GoodPng, TooSmall},
        mt \in ModelTypes,
        c \in {IntCat(0), IntCat(1), IntCat(5), StrCat("dress")},
        n \in {0, 1, max_samples, max_samples + 1},
        steps \in {1, max_steps, max_steps + 1},
        scale \in {min_scale - 1, min_scale, max_scale, max_scale + 1},
        seed \in {SeedOf(-1, 65534), seed_random, SeedOf(0, 0), max_seed, SeedOf(32768, 0)}}

ValInit == vreq \in ValRequests /\ vres = NoResp

Validate ==
    /\ vres = NoResp
    /\ vres' = validate_request(vreq)
    /\ UNCHANGED <<vreq, pipeVars, mgrVars, trackVars, tempVars, dlVars, cacheVars, concVars, nameVars>>

NextValidate == Validate

InitValidate == PipeParked /\ CacheInit /\ ConcParked /\ ValInit /\ NameParked /\ MgrParked /\ TrackParked /\ TempParked /\ DlParked

SpecValidate == InitValidate /\ [][NextValidate]_vars


(***************************************************************************)
(* validate_image_file applied to one file.                                *)
(***************************************************************************)
ImageFiles ==
    {File(exists, size, ext, mime, w, h, ok) :
        exists \in BOOLEAN,
        size \in {0, max_file_size, max_file_size + 1},
        ext \in {".jpg", ".JPG", ".Png", ".jpeg", ".BMP", ".gif", ".txt", ""},
        mime \in {"image/jpeg", "image/png", "text/plain", "application/octet-stream"},
        w \in {min_dimension - 1, min_dimension, max_dimension, max_dimension + 1},
        h \in {min_dimension - 1, min_dimension, max_dimension, max_dimension + 1},
        ok \in BOOLEAN}

ValidateImageFile ==
    /\ vres = NoResp
    /\ vres' = validate_image_file(vreq)
    /\ UNCHANGED <<vreq, pipeVars, mgrVars, trackVars, tempVars, dlVars, cacheVars, concVars, nameVars>>

NextImageFile == ValidateImageFile

InitImageFile ==
    /\ PipeParked /\ CacheInit /\ ConcParked /\ NameParked /\ MgrParked /\ TrackParked /\ TempParked /\ DlParked
    /\ vreq \in ImageFiles /\ vres = NoResp

SpecImageFile == InitImageFile /\ [][NextImageFile]_vars


(***************************************************************************)
(* The save loop of process_image run by several requests that share       *)
(* outputs/results, in one worker or in several.  A request reads the      *)
(* clock once, before the loop, and names its files by that second and     *)
(* the index of the image.                                                 *)
(***************************************************************************)
Writers == 1 .. MaxWriters

\* f"result_{timestamp}_{i}.png" with timestamp = strftime("%Y%m%d_%H%M%S")
OutputName(timestamp, i) == <<timestamp, ResultPath(i)>>

Idle == [at |-> "idle", timestamp |-> 0, n |-> 0, i |-> 0]

NameInit ==
    /\ clock = 0
    /\ wjob = [w \in Writers |-> Idle]
    /\ outdir = {}
    /\ clobbered = {}

\* a second passes
Tick ==
    /\ clock < MaxClock
    /\ clock' = clock + 1
    /\ UNCHANGED <<wjob, outdir, clobbered, pipeVars, mgrVars, trackVars, tempVars, dlVars, cacheVars, concVars, valVars>>

\* "result_paths = []; timestamp = datetime.now().strftime(...)", with the
\* images the synthesizer returned for the request
StartPersist(w) ==
    /\ wjob[w].at = "idle"
    /\ \E n \in 1 .. 2 :
          wjob' = [wjob EXCEPT ![w] = [at |-> "saving", timestamp |-> clock, n |-> n, i |-> 0]]
    /\ UNCHANGED <<clock, outdir, clobbered, pipeVars, mgrVars, trackVars, tempVars, dlVars, cacheVars, concVars, valVars>>

\* one turn of the loop: img.save(result_path, "PNG", ...) creates the file
\* or replaces the file of that name
SaveResult(w) ==
    /\ wjob[w].at = "saving"
    /\ LET j == wjob[w]
           name == OutputName(j.timestamp, j.i + 1)
       IN /\ outdir' = {f \in outdir : f.name # name}
                          \cup {[name |-> name, owner |-> w, img |-> j.i + 1]}
          /\ clobbered' = clobbered \cup {f \in outdir : f.name = name}
          /\ wjob' = [wjob EXCEPT ![w] =
                        [j EXCEPT !.i = j.i + 1,
                                  !.at = IF j.i + 1 = j.n THEN "done" ELSE "saving"]]
    /\ UNCHANGED <<clock, pipeVars, mgrVars, trackVars, tempVars, dlVars, cacheVars, concVars, valVars>>

NextNames == Tick \/ \E w \in Writers : StartPersist(w) \/ SaveResult(w)

InitNames == PipeParked /\ CacheInit /\ ConcParked /\ ValParked /\ NameInit /\ MgrParked /\ TrackParked /\ TempParked /\ DlParked

SpecNames == InitNames /\ [][NextNames]_vars


(***************************************************************************)
(* Temp files of an upload (utils/validation.py, api/app.py).  A filename  *)
(* is a sequence of runs [c, n]: n times the character c.  The characters  *)
(* are the reserved ones, the dot, the space, "_", "a" for any other       *)
(* character a client can send and "h" for a hexadecimal digit.            *)
(***************************************************************************)
\* the class [<>:"/\\|?*] of sanitize_filename
Reserved == {"<", ">", ":", "\"", "/", "\\", "|", "?", "*"}
\* os.sep and os.altsep
Separators == {"/", "\\"}
\* the 255 of sanitize_filename
name_max == 255
\* uuid.uuid4().hex[:8]
suffix_len == 8

Run(c, n) == <<[c |-> c, n |-> n]>>

RECURSIVE RLen(_)
\* len() of a filename
RLen(f) == IF f = <<>> THEN 0 ELSE Head(f).n + RLen(Tail(f))

RECURSIVE Take(_, _)
\* the first k characters of f
Take(f, k) ==
    IF f = <<>> \/ k <= 0 THEN <<>>
    ELSE IF Head(f).n <= k THEN <<Head(f)>> \o Take(Tail(f), k - Head(f).n)
    ELSE Run(Head(f).c, k)

\* the Python slice f[:k]: a negative k counts from the end
SliceTo(f, k) == IF k >= 0 THEN Take(f, k) ELSE Take(f, RLen(f) + k)

RECURSIVE LStrip(_, _)
LStrip(f, chars) ==
    IF f # <<>> /\ Head(f).c \in chars THEN LStrip(Tail(f), chars) ELSE f

RECURSIVE RStrip(_, _)
RStrip(f, chars) ==
    IF f # <<>> /\ f[Len(f)].c \in chars THEN RStrip(SubSeq(f, 1, Len(f) - 1), chars) ELSE f

\* str.strip(chars)
Strip(f, chars) == RStrip(LStrip(f, chars), chars)

\* re.sub(r'[<>:"/\\|?*]', '_', filename)
ReSub(f) ==
    [i \in DOMAIN f |-> [c |-> IF f[i].c \in Reserved THEN "_" ELSE f[i].c, n |-> f[i].n]]

\* index of the last run of f made of a character of cs, 0 if there is none
LastRun(f, cs) ==
    IF \E i \in DOMAIN f : f[i].c \in cs
    THEN CHOOSE i \in DOMAIN f : f[i].c \in cs /\ \A j \in DOMAIN f : f[j].c \in cs => j <= i
    ELSE 0

\* os.path.splitext: the extension starts at the last dot, when that dot
\* comes after the last separator and after a character that is no dot
splitext(f) ==
    LET sep == LastRun(f, Separators)
        dot == LastRun(f, {"."})
    IN IF dot > sep /\ \E i \in (sep + 1) .. (dot - 1) : f[i].c # "."
       THEN [name |-> SubSeq(f, 1, dot - 1)
                        \o (IF f[dot].n > 1 THEN Run(".", f[dot].n - 1) ELSE <<>>),
             ext |-> Run(".", 1) \o SubSeq(f, dot + 1, Len(f))]
       ELSE [name |-> f, ext |-> <<>>]

\* sanitize_filename without the replacement of the reserved characters
sanitize_filenameVerbatim(filename) == Strip(filename, {".", " "})

sanitize_filename(filename) ==
    LET stripped == Strip(ReSub(filename), {".", " "})
        s == splitext(stripped)
    IN IF RLen(stripped) > name_max
       THEN SliceTo(s.name, name_max - RLen(s.ext)) \o s.ext
       ELSE stripped

\* create_temp_file: the name of the file under <temp_dir>/uploads
create_temp_file(filename) ==
    LET s == splitext(sanitize_filename(filename))
    IN s.name \o Run("_", 1) \o Run("h", suffix_len) \o s.ext

RECURSIVE Split(_, _, _)
Split(f, acc, cur) ==
    IF f = <<>> THEN Append(acc, cur)
    ELSE IF Head(f).c \in Separators THEN Split(Tail(f), Append(acc, cur), <<>>)
    ELSE Split(Tail(f), acc, Append(cur, Head(f)))

\* the path components pathlib finds in a name joined to <temp_dir>/uploads
Components(f) == Split(f, <<>>, <<>>)

\* the components "." and ".."
IsDots(comp) == comp # <<>> /\ (\A i \in DOMAIN comp : comp[i].c = ".") /\ RLen(comp) <= 2

\* <temp_dir>/uploads/<f> names a file directly inside <temp_dir>/uploads
DirectChild(f) ==
    /\ Len(Components(f)) = 1
    /\ f # <<>>
    /\ ~IsDots(f)

\* what clients put in front of a name, the names, and their extensions
Prefixes ==
    {<<>>, Run(".", 2) \o Run("/", 1), Run(".", 2), Run("/", 1), Run("\\", 1),
     Run("<", 1) \o Run(">", 1), Run(" ", 1), Run(".", 2) \o Run("\\", 1) \o Run(".", 2) \o Run("/", 1)}
Stems ==
    {<<>>, Run("a", 1), Run("a", name_max - 13), Run("a", name_max - 4), Run("a", name_max + 45),
     Run("a", 1) \o Run(":", 1) \o Run("a", 1), Run("a", 1) \o Run("/", 1) \o Run("a", 1),
     Run("a", 1) \o Run("|", 1) \o Run("?", 1) \o Run("*", 1) \o Run("\"", 1)}
Extensions ==
    {<<>>, Run(".", 1) \o Run("a", 3), Run(".", 1), Run(".", 1) \o Run("a", name_max + 45),
     Run(".", 1) \o Run("a", 3) \o Run(".", 1) \o Run("a", 2)}
Filenames == {p \o s \o e : p \in Prefixes, s \in Stems, e \in Extensions}

\* process_images: model_temp_path = create_temp_file(model_file.filename);
\* cloth_file goes through the same steps on its own
CreateTemp ==
    /\ upload_pc = "received"
    /\ temp_file' = create_temp_file(original_filename)
    /\ upload_pc' = "created"
    /\ UNCHANGED <<original_filename, fs_written, fs_removed,
                   pipeVars, cacheVars, concVars, valVars, nameVars, mgrVars, trackVars, dlVars>>

\* with open(model_temp_path, "wb"): the file is created, or open raises
SaveUpload ==
    /\ upload_pc = "created"
    /\ \E ok \in BOOLEAN :
          /\ fs_written' = IF ok THEN fs_written \cup {temp_file} ELSE fs_written
          /\ upload_pc' = IF ok THEN "saved" ELSE "failed"
    /\ UNCHANGED <<original_filename, temp_file, fs_removed,
                   pipeVars, cacheVars, concVars, valVars, nameVars, mgrVars, trackVars, dlVars>>

\* finally: if model_temp_path and model_temp_path.exists(): unlink()
ReleaseUpload ==
    /\ upload_pc \in {"saved", "failed"}
    /\ fs_removed' = IF temp_file \in fs_written THEN fs_removed \cup {temp_file} ELSE fs_removed
    /\ upload_pc' = "released"
    /\ UNCHANGED <<original_filename, temp_file, fs_written,
                   pipeVars, cacheVars, concVars, valVars, nameVars, mgrVars, trackVars, dlVars>>

NextTemp == CreateTemp \/ SaveUpload \/ ReleaseUpload

InitTemp ==
    /\ PipeParked /\ CacheInit /\ ConcParked /\ ValParked /\ NameParked /\ MgrParked
    /\ TrackParked /\ DlParked
    /\ original_filename \in Filenames /\ temp_file = <<>> /\ upload_pc = "received"
    /\ fs_written = {} /\ fs_removed = {}

SpecTemp == InitTemp /\ [][NextTemp]_vars


(***************************************************************************)
(* The model downloader (scripts/auto_download_models.py).                 *)
(***************************************************************************)
\* what one subprocess.run of run_command can do: return, raise
\* CalledProcessError, raise TimeoutExpired, raise anything else
RunOutcomes == {"ok", "nonzero", "timeout", "other"}
\* the two exceptions run_command catches
Caught == {"nonzero", "timeout"}
RetriesIn == 0 .. MaxRetries

\* the guard of time.sleep(5) with its "- 1" left out
SleepsAfterEvery(attempt, retries) == attempt < retries

\* "if attempt < retries - 1: time.sleep(5)"
SleepsAfter(attempt, retries) == attempt < retries - 1

\* one pass of "for attempt in range(retries)": the command is executed; it
\* returns True, or the failure is caught and the pass sleeps or returns
\* False, or another exception leaves run_command
RunAttempt ==
    /\ rc_result = "running"
    /\ rc_attempt < rc_retries
    /\ \E o \in RunOutcomes :
          CASE o = "ok" ->
                 /\ rc_events' = Append(rc_events, o)
                 /\ rc_result' = "True"
                 /\ UNCHANGED rc_attempt
            [] o \in Caught ->
                 IF SleepsAfter(rc_attempt, rc_retries)
                 THEN /\ rc_events' = rc_events \o <<o, "sleep">>
                      /\ rc_attempt' = rc_attempt + 1
                      /\ UNCHANGED rc_result
                 ELSE /\ rc_events' = Append(rc_events, o)
                      /\ rc_result' = "False"
                      /\ UNCHANGED rc_attempt
            [] OTHER ->
                 /\ rc_events' = Append(rc_events, o)
                 /\ rc_result' = "raised"
                 /\ UNCHANGED rc_attempt
    /\ UNCHANGED <<rc_retries, dl_next, dl_log, success_count, dl_result,
                   pipeVars, cacheVars, concVars, valVars, nameVars, mgrVars, trackVars, tempVars>>

\* the "return False" after the loop, reached when range(retries) is empty
RunExhausted ==
    /\ rc_result = "running"
    /\ rc_attempt >= rc_retries
    /\ rc_result' = "False"
    /\ UNCHANGED <<rc_retries, rc_attempt, rc_events, dl_next, dl_log, success_count, dl_result,
                   pipeVars, cacheVars, concVars, valVars, nameVars, mgrVars, trackVars, tempVars>>

NextRun == RunAttempt \/ RunExhausted

InitRun ==
    /\ PipeParked /\ CacheInit /\ ConcParked /\ ValParked /\ NameParked /\ MgrParked
    /\ TrackParked /\ TempParked
    /\ rc_retries \in RetriesIn /\ rc_attempt = 0 /\ rc_events = <<>> /\ rc_result = "running"
    /\ dl_next = 0 /\ dl_log = <<>> /\ success_count = 0 /\ dl_result = "parked"

SpecRun == InitRun /\ [][NextRun]_vars

\* the dict models of download_all_models, in its order
models == <<"ootd", "humanparsing", "openpose", "clip-vit-large-patch14">>
\* a strategy of download_model: run_command returned False, or it returned
\* True and the target directory is empty, or is not
StrategyOutcomes == {"failed", "empty", "content"}

\* download_model: the target is a work tree already, or the first strategy
\* that leaves content in the target directory
download_model(exists, strategies) ==
    IF exists THEN "exists"
    ELSE IF \E i \in DOMAIN strategies : strategies[i] = "content"
    THEN "downloaded"
    ELSE "failed"

\* "if success_count >= 2"
Sufficient(count) == count >= 2

\* ensure_git_lfs: False when git-lfs is neither found nor installed
EnsureLfs ==
    /\ dl_result = "running" /\ dl_next = 0
    /\ \E available \in BOOLEAN :
          IF available
          THEN dl_next' = 1 /\ UNCHANGED dl_result
          ELSE dl_result' = "False" /\ UNCHANGED dl_next
    /\ UNCHANGED <<rc_retries, rc_attempt, rc_events, rc_result, dl_log, success_count,
                   pipeVars, cacheVars, concVars, valVars, nameVars, mgrVars, trackVars, tempVars>>

\* one pass of "for model_name, repo_url in models.items()"
DownloadNext ==
    /\ dl_result = "running" /\ dl_next \in DOMAIN models
    /\ \E exists \in BOOLEAN, strategies \in [1 .. 3 -> StrategyOutcomes] :
          LET how == download_model(exists, strategies)
          IN /\ dl_log' = Append(dl_log, how)
             /\ success_count' = IF how # "failed" THEN success_count + 1 ELSE success_count
    /\ dl_next' = dl_next + 1
    /\ UNCHANGED <<rc_retries, rc_attempt, rc_events, rc_result, dl_result,
                   pipeVars, cacheVars, concVars, valVars, nameVars, mgrVars, trackVars, tempVars>>

\* the summary after the loop
DownloadReport ==
    /\ dl_result = "running" /\ dl_next = Len(models) + 1
    /\ dl_result' = IF Sufficient(success_count) THEN "True" ELSE "False"
    /\ UNCHANGED <<rc_retries, rc_attempt, rc_events, rc_result, dl_next, dl_log, success_count,
                   pipeVars, cacheVars, concVars, valVars, nameVars, mgrVars, trackVars, tempVars>>

NextDownload == EnsureLfs \/ DownloadNext \/ DownloadReport

InitDownload ==
    /\ PipeParked /\ CacheInit /\ ConcParked /\ ValParked /\ NameParked /\ MgrParked
    /\ TrackParked /\ TempParked
    /\ rc_retries = 0 /\ rc_attempt = 0 /\ rc_events = <<>> /\ rc_result = "parked"
    /\ dl_next = 0 /\ dl_log = <<>> /\ success_count = 0 /\ dl_result = "running"

SpecDownload == InitDownload /\ [][NextDownload]_vars


(***************************************************************************)
(* Properties.                                                             *)
(***************************************************************************)
Range(q) == {q[i] : i \in DOMAIN q}
StageSet == Range(Stages)
StageIndex(s) == CHOOSE i \in DOMAIN Stages : Stages[i] = s
\* the opaque component a stage invokes
ComponentOf(s) ==
    CASE s = "PoseEstimating" -> {"pose"}
      [] s = "Parsing" -> {"parse"}
      [] s = "Masking" -> {"mask"}
      [] s = "Synthesizing" -> {"synth"}
      [] OTHER -> {}
CalledUpTo(s) == UNION {ComponentOf(Stages[i]) : i \in 1 .. StageIndex(s)}
Finished == pc = "finished"
InPipeline == req # NoReq /\ caller \notin {"module_load", "warmup"}
\* the pipeline function the request runs
UsesInference == req # NoReq /\ req.transport \in {"direct", "serverless"}
Samples == IF UsesInference THEN args.samples ELSE req.samples

\* C1: once a request has finished, on any exit path, neither the model temp
\* file nor the cloth temp file exists any more.
C1_EphemeralInputsRemoved == Finished => temps = {}

\* C2: concurrent first-time calls of initialize_models construct each model
\* exactly once, and all callers use the same instance of each model.
C2_OneConstructionOneHandle ==
    /\ \A m \in ModelNames : ncons[m] <= 1
    /\ \A t, u \in DOMAIN tpc : \A m \in ModelNames :
          tuse[t][m] # 0 /\ tuse[u][m] # 0 => tuse[t][m] = tuse[u][m]

\* what the pipeline function of the request checks about its inputs
InputsValidated ==
    IF UsesInference
    THEN /\ args.model_type \in {"hd", "dc"}
         /\ ~(args.model_type = "hd" /\ category # IntCat(0))
    ELSE validate_request(RequestData(req)).ok

\* C3: the stages are entered in the fixed order, each at most once and none
\* skipped, Errored being the only other terminal state; and validation is
\* complete before any image is loaded or any model is called.
C3_FixedStageOrder ==
    req # NoReq =>
        /\ \/ \E k \in 0 .. Len(Stages) : hist = SubSeq(Stages, 1, k)
           \/ \E k \in 0 .. Len(Stages) - 1 : hist = SubSeq(Stages, 1, k) \o <<"Errored">>
        /\ Finished /\ hist # <<>> => stage \in {"Done", "Errored"}
        /\ (called # {} \/ "PoseEstimating" \in Range(hist)) /\ InPipeline => InputsValidated

\* C4: when a stage fails, no later stage of the request is invoked, nothing
\* is persisted after a failure before Persisting, and the request is in
\* Errored.
C4_FailureShortCircuits ==
    exc # NoExc /\ exc.at \in StageSet =>
        /\ stage = "Errored"
        /\ hist = SubSeq(Stages, 1, StageIndex(exc.at)) \o <<"Errored">>
        /\ called \subseteq CalledUpTo(exc.at)
        /\ StageIndex(exc.at) < StageIndex("Synthesizing") => "synth" \notin called
        /\ StageIndex(exc.at) < StageIndex("Persisting") =>
              disk = {} /\ result_paths = <<>> /\ result_images = <<>>
C4_Witness ==
    /\ Finished /\ exc.at = "PoseEstimating" /\ stage = "Errored"
    /\ called = {"pose"} /\ ~response.success

\* C5: a failure raised inside the load, pose, parse, mask, synthesize or
\* persist stage reaches the request handler as a ProcessingError that
\* carries the name of the stage that failed.
C5_StageFailureWrapped ==
    /\ pc \in {"api_after", "rp_finally", "inf_return"}
    /\ exc # NoExc
    /\ exc.at \in StageSet \ {"Validating", "Done"}
    => exc.kind = "ProcessingError" /\ exc.step = exc.at

\* C6: when the synthesizer returns a number of images different from
\* samples, the request fails with a ProcessingError tagged Synthesizing and
\* no result path or image is returned.
C6_CountMismatchRejected ==
    /\ Finished /\ InPipeline
    /\ "Persisting" \in Range(hist)
    /\ Samples \in 1 .. max_samples
    /\ Len(images) # Samples
    => /\ ~response.success
       /\ exc.kind = "ProcessingError" /\ exc.step = "Synthesizing"
       /\ response.result_paths = <<>> /\ response.result_images = <<>>

\* C7: whenever synthesis or persistence fails partway through a request,
\* also after some output files were written and also while they are read
\* back, the response carries no result paths and no result images.
C7_AllOrNothing ==
    Finished /\ exc.at \in {"Synthesizing", "Persisting", "ReadBack"} =>
        /\ ~response.success
        /\ response.result_paths = <<>>
        /\ response.result_images = <<>>
C7_Witness ==
    /\ Finished /\ exc.at = "Persisting" /\ disk # {}
    /\ ~response.success /\ response.result_paths = <<>>

\* C8: for a request with model type hd and a category other than upper,
\* validation fails and no model is constructed or called for the request.
C8_HdNonUpperRejected ==
    /\ req # NoReq
    /\ req.model_type = "hd"
    /\ req.category \notin {IntCat(0), StrCat("upperbody")}
    => /\ called = {}
       /\ builtNow = {}
       /\ Finished => ~response.success

\* C9: for model type dc, a category outside the six accepted values is
\* rejected as a validation failure and never reaches mask computation or
\* synthesis.
C9_DcBadCategoryRejected ==
    /\ req # NoReq
    /\ req.model_type = "dc"
    /\ req.category \notin valid_categories
    /\ InPipeline
    => /\ "mask" \notin called /\ "synth" \notin called
       /\ "Loading" \notin Range(hist)
       /\ Finished /\ "Validating" \in Range(hist) =>
             exc.at = "Validating" /\ exc.kind \in {"ValidationError", "ValueError"}

\* the labels of the fields of a request_data dict that violate a rule
ViolatedFields(rd) ==
    {"Missing required field: " \o k : k \in {"model_path", "cloth_path"} \ rd.present}
    \cup {"Model path" : x \in {1} \cap {i \in {1} : Has(rd, "model_path") /\ ~validate_image_file(rd.model_path).ok}}
    \cup {"Cloth path" : x \in {1} \cap {i \in {1} : Has(rd, "cloth_path") /\ ~validate_image_file(rd.cloth_path).ok}}
    \cup {"Model type" : x \in {1} \cap {i \in {1} : ~validate_model_type(rd.model_type).ok}}
    \cup {"Category" : x \in {1} \cap {i \in {1} : ~validate_category(rd.category, rd.model_type).ok}}
    \cup {"Samples" : x \in {1} \cap {i \in {1} : Has(rd, "samples") /\ ~validate_samples(rd.samples).ok}}
    \cup {"Steps" : x \in {1} \cap {i \in {1} : Has(rd, "steps") /\ ~validate_steps(rd.steps).ok}}
    \cup {"Scale" : x \in {1} \cap {i \in {1} : Has(rd, "scale") /\ ~validate_scale(rd.scale).ok}}
    \cup {"Seed" : x \in {1} \cap {i \in {1} : Has(rd, "seed") /\ ~validate_seed(rd.seed).ok}}

\* C10: the error list validate_request returns has an entry for every
\* violated field, whatever the combination of violations.
C10_AllViolationsReported ==
    vres # NoResp => ViolatedFields(vreq) \subseteq Range(vres.errors)

\* the documented bounds: samples 1..4, steps 1..40, scale 1.0..5.0 (in
\* tenths), seed -1 or 0..2^31-1 (as the pair hi, lo)
SamplesInBounds(rd) == rd.samples >= 1 /\ rd.samples <= 4
StepsInBounds(rd) == rd.steps >= 1 /\ rd.steps <= 40
ScaleInBounds(rd) == rd.scale >= 10 /\ rd.scale <= 50
SeedInBounds(rd) ==
    \/ rd.seed = <<-1, 65535>>
    \/ rd.seed[1] >= 0 /\ rd.seed[1] <= 32767 /\ rd.seed[2] >= 0 /\ rd.seed[2] <= 65535
\* the request_data has both paths, valid images, model type and category
OthersValid(rd) ==
    /\ Has(rd, "model_path") /\ Has(rd, "cloth_path")
    /\ validate_image_file(rd.model_path).ok /\ validate_image_file(rd.cloth_path).ok
    /\ Has(rd, "model_type") /\ rd.model_type \in {"hd", "dc"}
    /\ Has(rd, "category") /\ validate_category(rd.category, rd.model_type).ok

\* C11: with valid images, model type and category, every samples, steps,
\* scale and seed inside the documented bounds (inclusive) passes
\* validate_request with an empty error list and satisfies the ProcessRequest
\* field constraints.
C11_InBoundsAccepted ==
    /\ vres # NoResp
    /\ OthersValid(vreq)
    /\ SamplesInBounds(vreq) /\ StepsInBounds(vreq) /\ ScaleInBounds(vreq) /\ SeedInBounds(vreq)
    => vres.ok /\ vres.errors = <<>> /\ ProcessRequestOk(vreq)
C11_Witness ==
    /\ vres # NoResp /\ vres.ok /\ vreq.present = AllKeys
    /\ vreq.samples = 4 /\ vreq.steps = 40 /\ vreq.scale = 50 /\ vreq.seed = <<32767, 65535>>

\* the field named key is in the request_data and is the only one of the
\* four numeric fields outside its bound
OnlyOutside(rd, key) ==
    /\ OthersValid(rd)
    /\ Has(rd, key)
    /\ (key = "samples") = ~SamplesInBounds(rd)
    /\ (key = "steps") = ~StepsInBounds(rd)
    /\ (key = "scale") = ~ScaleInBounds(rd)
    /\ (key = "seed") = ~SeedInBounds(rd)

\* C12: when exactly one of samples, steps, scale, seed is outside its bound
\* and everything else is valid, validate_request fails and its error list
\* names that field and no other.
C12_OutOfBoundsNamed ==
    vres # NoResp =>
        /\ OnlyOutside(vreq, "samples") => ~vres.ok /\ vres.errors = <<"Samples">>
        /\ OnlyOutside(vreq, "steps") => ~vres.ok /\ vres.errors = <<"Steps">>
        /\ OnlyOutside(vreq, "scale") => ~vres.ok /\ vres.errors = <<"Scale">>
        /\ OnlyOutside(vreq, "seed") => ~vres.ok /\ vres.errors = <<"Seed">>
C12_Witness ==
    /\ vres # NoResp /\ OnlyOutside(vreq, "seed") /\ vreq.seed = <<32768, 0>>
    /\ vres.errors = <<"Seed">>

\* the integer a category stands for: integers for themselves, the three
\* names for 0, 1, 2
CanonicalCategory(c) ==
    IF ~c.isStr THEN c.n
    ELSE CASE c.s = "upperbody" -> 0
           [] c.s = "lowerbody" -> 1
           [] c.s = "dress" -> 2
           [] OTHER -> -1
CategoryInputs == Categories \cup {StrCat("lowerbody"), StrCat("Dress"), IntCat(3)}
OnProcessImage == req # NoReq /\ req.transport \in {"api", "runpod"}

\* C13: validate_and_convert_category returns the integer 0, 1 or 2 of every
\* category validate_category accepts for the model type and raises a
\* ValidationError for field category for every other value; in process_image
\* the mask region and the synthesizer category name are picked with that
\* integer only.
C13_CategoryNormalized ==
    /\ \A c \in CategoryInputs, mt \in ModelTypes :
          LET r == validate_and_convert_category(c, mt)
          IN IF validate_category(c, mt).ok
             THEN ~r.raised /\ r.value \in {0, 1, 2} /\ r.value = CanonicalCategory(c)
             ELSE r.raised /\ r.field = "category"
    /\ OnProcessImage /\ category # NoCat =>
          /\ ~category.isStr /\ category.n \in {0, 1, 2}
          /\ category.n = CanonicalCategory(req.category)
    /\ OnProcessImage /\ region # "" =>
          category # NoCat /\ region = <<"upper_body", "lower_body", "dresses">>[category.n + 1]
    /\ OnProcessImage /\ synthcat # "" =>
          category # NoCat /\ synthcat = <<"upperbody", "lowerbody", "dress">>[category.n + 1]
C13_Witness ==
    /\ OnProcessImage /\ req.category = StrCat("dress") /\ req.model_type = "dc"
    /\ category = IntCat(2) /\ region = "dresses" /\ synthcat = "dress"

\* a file that exists, has at most 10 MB, an allow-listed extension in any
\* letter case, an image media type, decodes, and is 64..4096 wide and high
Acceptable(f) ==
    /\ f.exists
    /\ f.size <= 10485760
    /\ f.ext \in {".jpg", ".JPG", ".jpeg", ".JPEG", ".png", ".PNG", ".Png", ".bmp", ".BMP"}
    /\ f.mime \in {"image/jpeg", "image/png", "image/gif", "image/bmp"}
    /\ f.verifies
    /\ f.width >= 64 /\ f.width <= 4096
    /\ f.height >= 64 /\ f.height <= 4096

\* C14: validate_image_file returns (True, ...) exactly for the acceptable
\* files and (False, reason) with a reason for every other file.
C14_ImageFileAcceptedIff ==
    vres # NoResp =>
        /\ vres.ok = Acceptable(vreq)
        /\ ~vres.ok => vres.msg # "" /\ vres.msg # "Valid image file"
C14_Witness ==
    /\ vres # NoResp /\ vres.ok /\ vreq.ext = ".BMP"
    /\ vreq.size = 10485760 /\ vreq.width = 64 /\ vreq.height = 4096

\* C15: a request without a cloth image never has a temp file materialized,
\* for the model image or for the cloth image, on any transport, and it is
\* not answered with success.
C15_MissingClothNoTemp ==
    req # NoReq /\ ~req.cloth_file.present =>
        /\ temps = {}
        /\ tpaths = {}
        /\ Finished => ~response.success
C15_Witness ==
    /\ Finished /\ req.transport = "runpod"
    /\ req.model_file.present /\ ~req.cloth_file.present
    /\ response.status = "error" /\ temps = {}

\* C16: the background cleanup_temp_files runs on paths the finalizer of the
\* request has already removed; it raises nothing and changes neither the
\* temp files, the outputs nor the response.
C16_ReleaseIdempotent ==
    [][pc = "api_background" /\ pc' # pc =>
          /\ temps \cap tpaths = {}
          /\ temps' = temps /\ disk' = disk
          /\ exc' = exc /\ response' = response /\ tracked' = tracked
          /\ pc' = "finished"]_vars
C16_Witness ==
    /\ Finished /\ req.transport = "api" /\ response.status = "200" /\ ~bg
    /\ tpaths = {"model", "cloth"} /\ temps = {} /\ exc = NoExc

\* C17: no result file written by one request is overwritten by another, and
\* the samples of one request have different names.
C17_UniqueOutputNames ==
    /\ clobbered = {}
    /\ \A f, g \in outdir : f.name = g.name => f = g
    /\ \A w \in DOMAIN wjob :
          Cardinality({f \in outdir : f.owner = w}) = wjob[w].i

\* C18: a successful response of process_images or _handle_process carries
\* exactly as many result paths as samples were requested.
C18_ResultCountIsSamples ==
    Finished /\ OnProcessImage /\ response.success =>
        Len(response.result_paths) = req.samples

\* C19: the save loop writes every image the synthesizer returned, in the
\* order returned; the i-th result path is the file that holds the i-th
\* image, and the result_images of _handle_process are in the same order.
C19_PersistInOrder ==
    OnProcessImage =>
        /\ Len(result_paths) <= Len(images)
        /\ \A i \in 1 .. Len(result_paths) :
              [path |-> result_paths[i], img |-> images[i]] \in disk
        /\ \A i, j \in 1 .. Len(result_paths) : result_paths[i] = result_paths[j] => i = j
        /\ Finished /\ response.success =>
              /\ response.result_paths = result_paths
              /\ Len(response.result_paths) = Len(images)
              /\ Cardinality(disk) = Len(images)
              /\ req.transport = "runpod" => response.result_images = images
C19_Witness ==
    /\ Finished /\ req.transport = "runpod" /\ response.success
    /\ Len(images) = 2 /\ Len(response.result_paths) = 2
    /\ response.result_images = images

\* C20: once a model global of run/inference.py holds an instance, no step
\* replaces, rebuilds or removes it.
C20_CacheEntriesStable ==
    [][\A m \in ModelNames : gmodel[m] # 0 => gmodel'[m] = gmodel[m]]_vars

\* load_models stopped after the three hd entries and before the last dc entry
HdBuiltDcFailed == HdKeys \subseteq mm_models /\ ~(DcKeys \subseteq mm_models)

\* C21: when building the dc models fails after the hd models were built, an
\* hd request is still served with the hd handles: it is not answered with a
\* model-loading failure.
C21_HdServedAfterDcFailure ==
    (Finished /\ req # NoReq /\ req.transport \in {"api", "runpod"}
        /\ req.model_type = "hd" /\ req.category = IntCat(0) /\ req.samples = 1
        /\ req.model_file = GoodUpload /\ req.cloth_file = GoodUpload
        /\ HdBuiltDcFailed)
    => response.detail \notin {"ModelLoadError", "Models not loaded"}

\* the device the policy gives a profile on a machine with n accelerators
PolicyDevice(profile, n) == IF profile = "dc" /\ n >= 2 THEN 1 ELSE 0

\* C22: every model of the hd profile is bound to device 0, and every model of
\* the dc profile to device 1 exactly when the machine has at least two
\* accelerators, otherwise to device 0; this holds for the entries of
\* ModelManager.models and for the globals of run/inference.py.
C22_DevicePolicy ==
    /\ \A k \in mm_models :
          mm_device[k] = PolicyDevice(IF k \in HdKeys THEN "hd" ELSE "dc", gpus)
    /\ gmodel["hd_model"] # 0 => gdevice["hd_model"] = PolicyDevice("hd", gpus)
    /\ gmodel["dc_model"] # 0 => gdevice["dc_model"] = PolicyDevice("dc", gpus)

StatusOfKind(kind) ==
    IF kind = "ValidationError" THEN {"400", "422"}
    ELSE IF kind = "ResourceError" THEN {"503"}
    ELSE {"500"}

\* C24: on /process a ValidationError is answered in the 400 class, resource
\* unavailability (models not loaded, ResourceError) with 503, and every
\* other failure in the 500 class.
C24_StatusByKind ==
    (pc = "api_finally" \/ (Finished /\ req # NoReq /\ req.transport = "api"
                                     /\ response.detail # "Internal Server Error"))
    => /\ exc # NoExc => response.status \in StatusOfKind(exc.kind)
       /\ response.detail = "Models not loaded" => response.status = "503"

\* a /process request that reaches the endpoint body with an upload whose
\* declared media type is not image/*
NonImageUpload ==
    /\ req # NoReq /\ req.transport = "api"
    /\ req.model_file.present /\ req.cloth_file.present /\ ProcessRequestOk(req)
    /\ ~(req.model_file.ctype_image /\ req.cloth_file.ctype_image)

\* C25: a /process request with an upload of a non-image media type is
\* answered with status 400, and no temp file is ever created for it.
C25_NonImageIs400 ==
    NonImageUpload => (temps = {} /\ (Finished => response.status = "400"))

\* a /process request with both images good and a parameter of the kinds the
\* validation tests send: unknown model type, category 5, too many samples
InvalidParameter ==
    /\ req # NoReq /\ req.transport = "api"
    /\ req.model_file = GoodUpload /\ req.cloth_file = GoodUpload
    /\ \/ req.model_type \notin {"hd", "dc"}
       \/ req.category = IntCat(5)
       \/ req.samples > max_samples

\* C26: a /process request with both image files present and an invalid
\* parameter is answered with status 400.
C26_InvalidParameterIs400 ==
    (Finished /\ InvalidParameter) => response.status = "400"

\* the request of scenario 2: dc with category 5, everything else valid
DcCategoryFive ==
    /\ req.model_type = "dc" /\ req.category = IntCat(5)
    /\ req.model_file = GoodUpload /\ req.cloth_file = GoodUpload
    /\ req.samples \in 1 .. max_samples

\* an input was rejected as invalid: a ValidationError, or the upload check of
\* the endpoint body
ValidationRejected ==
    exc.kind = "ValidationError" \/ (exc.kind = "HTTPException" /\ exc.fields # {})

\* C27: a dc request with category 5 is answered with a failure of kind
\* ValidationError whose message names the category, and every validation
\* failure reaches the caller as a failure naming the fields it is about.
C27_ValidationDetailSurfaces ==
    (Finished /\ OnProcessImage /\ app = "up")
    => /\ (DcCategoryFive /\ "Validating" \in Range(hist))
            => /\ ~response.success
               /\ response.kind = "ValidationError"
               /\ "Category" \in response.names
       /\ ValidationRejected
            => /\ ~response.success
               /\ response.names # {}
               /\ exc.fields \subseteq response.names

\* the request failed with a ModelLoadError or a ProcessingError
LoadOrProcessingFailure ==
    \/ exc.kind \in {"ModelLoadError", "ProcessingError"}
    \/ (~response.success /\ response.detail \in {"ModelLoadError", "ProcessingError"})

\* C28: on every transport the answer to a ModelLoadError or ProcessingError
\* holds neither a stack trace nor the message of the underlying exception.
C28_InternalsWithheld ==
    (Finished /\ req # NoReq /\ req.transport \in {"api", "runpod", "serverless"}
        /\ LoadOrProcessingFailure)
    => (~response.trace /\ response.message # "exception")

\* the request failed with an exception outside the four classified kinds
UnclassifiedFailure == exc # NoExc /\ ~IsOOTDError(exc)

\* C29: every unclassified failure appends exactly one record through the
\* error tracker and is answered with a fixed message that holds nothing of
\* the exception.
C29_UnclassifiedTrackedOnce ==
    (Finished /\ req # NoReq /\ req.transport \in {"api", "runpod", "serverless"}
        /\ UnclassifiedFailure)
    => (tracked = 1 /\ response.message = "fixed" /\ ~response.trace)

\* C30: the persisted error log is append-only: as long as no write of the
\* file has failed, it holds every record ever tracked, once each, unchanged
\* and in the order of tracking, whichever tracker recorded it.
C30_LogAppendOnly ==
    (~save_failed /\ ever_tracked # <<>>) => (log_exists /\ log_file = ever_tracked)

\* C31: within a call of process_image or inference a stage is entered at
\* most once, the synthesizer among them, and once a stage has failed no
\* stage is entered again: the stage history only grows by a stage it does
\* not hold yet, and not at all after Errored.
C31_NoRetry ==
    [][(hist' # hist /\ hist' # <<>>)
          => /\ Len(hist') = Len(hist) + 1
             /\ SubSeq(hist', 1, Len(hist)) = hist
             /\ "Errored" \notin Range(hist)
             /\ hist'[Len(hist')] \notin Range(hist)]_vars
C31_Witness ==
    /\ Finished /\ exc.at = "Synthesizing" /\ exc.kind = "RuntimeError"
    /\ "synth" \in called /\ hist[Len(hist)] = "Errored" /\ images = <<>>

\* C32: the name create_temp_file gives a temp file holds none of the reserved
\* characters < > : " / \ | ? *, is at most 255 characters long whatever the
\* length of the original name or of its extension, and has the random
\* suffix right before the extension.
C32_TempNameWellFormed ==
    upload_pc # "received" =>
        /\ \A i \in DOMAIN temp_file : temp_file[i].c \notin Reserved
        /\ RLen(temp_file) <= name_max
        /\ LET s == splitext(temp_file)
           IN /\ Len(s.name) >= 2
              /\ s.name[Len(s.name) - 1] = [c |-> "_", n |-> 1]
              /\ s.name[Len(s.name)] = [c |-> "h", n |-> suffix_len]

\* C40: whatever filename the client sent, dots, separators and ".." segments
\* included, the temp file is a direct child of <temp_dir>/uploads, and every
\* file the upload wrote or unlinked is such a direct child.
C40_UploadsStayInside ==
    /\ upload_pc \notin {"parked", "received"} => DirectChild(temp_file)
    /\ \A f \in fs_written \cup fs_removed : DirectChild(f)
C40_Witness ==
    /\ upload_pc = "released"
    /\ \E i \in DOMAIN original_filename : original_filename[i].c \in Separators
    /\ Len(original_filename) >= 2
    /\ original_filename[1] = [c |-> ".", n |-> 2]
    /\ temp_file \in fs_written /\ temp_file \in fs_removed

\* C33: the serverless handler initializes its models once: an initialization
\* whose constructions all succeeded sets models_initialized, and once the
\* module is loaded with every model constructed no job starts the warm-up
\* inference again.
C33_InitializedOnce ==
    [][/\ (/\ pc = "inf_return" /\ caller \in {"module_load", "warmup"}
           /\ \A m \in ModelNames : gmodel[m] # 0) => models_initialized'
       /\ (/\ svLoaded /\ caller # "warmup"
           /\ \A m \in ModelNames : gmodel[m] # 0) => caller' # "warmup"]_vars

\* C34: a serverless job with decodable user and cloth images, model_type hd
\* and garment_type upper, on which every model was constructed and no
\* component raised, is answered with the output dict: success is True, the
\* images are those of the synthesizer in its order, and no error is given.
C34_HdUpperJobSucceeds ==
    (/\ Finished /\ req.transport = "serverless"
     /\ req.model_file = GoodUpload /\ req.cloth_file = GoodUpload
     /\ req.model_type = "hd" /\ req.garment_type = "upper"
     /\ \A m \in ModelNames : gmodel[m] # 0
     /\ exc.kind \notin OpaqueFailures \cup {"OSError"})
        => /\ response.status = "output" /\ response.success
           /\ response.result_images = images
           /\ "synth" \in called

\* C35: for a call of inference or a serverless job that gives a category 0,
\* 1 or 2 and no garment_type, on the dc model, the mask is computed for the
\* region of that category and the synthesizer is given the name of that
\* category: lower_body and lowerbody for 1, dresses and dress for 2.
C35_CategorySelectsRegion ==
    (/\ req # NoReq /\ req.transport \in {"direct", "serverless"}
     /\ req.garment_type = NotSupplied /\ req.model_type = "dc"
     /\ caller \in {"direct", "job"})
        => /\ "mask" \in called => region = Index(req.category, category_dict_utils)
           /\ "synth" \in called => synthcat = Index(req.category, category_dict)

\* C36: the readiness wait of RunPodHandler.setup ends: it advances wait_time
\* by the 5 second interval, only while models_loaded is false, never past
\* the 300 seconds of 60 polls, and setup eventually leaves the loop.
C36_WaitTerminates ==
    /\ <>(pc # "rp_wait")
    /\ [](wait_time <= max_wait_time /\ wait_time % poll_interval = 0)
    /\ [][wait_time' # wait_time
            => /\ ~models_loaded /\ pc = "rp_wait"
               /\ wait_time' = wait_time + poll_interval]_vars
C36_Witness ==
    /\ pc # "rp_wait" /\ ~models_loaded
    /\ wait_time = max_wait_time /\ wait_time = 60 * poll_interval
    /\ response # NoResp

\* C37: run_command executes the command at most retries times, stops at the
\* first success and returns True, returns False exactly when every one of
\* the retries executions failed by exit status or timeout, and sleeps only
\* between two executions, never after the last.
C37_BoundedRetries ==
    LET runs == {i \in DOMAIN rc_events : rc_events[i] # "sleep"}
        sleeps == DOMAIN rc_events \ runs
    IN /\ Cardinality(runs) <= rc_retries
       /\ \A i \in runs : rc_events[i] \in {"ok", "other"} => i = Len(rc_events)
       /\ rc_result = "True" <=> (rc_events # <<>> /\ rc_events[Len(rc_events)] = "ok")
       /\ rc_result = "False"
            <=> /\ rc_result \notin {"running", "parked"}
                /\ Cardinality(runs) = rc_retries
                /\ \A i \in runs : rc_events[i] \in Caught
       /\ \A i \in sleeps : i > 1 /\ rc_events[i - 1] \in Caught
       /\ rc_result \notin {"running", "parked"}
            => (rc_events = <<>> \/ rc_events[Len(rc_events)] # "sleep")
       /\ Cardinality(sleeps) <= Cardinality(runs)
       /\ rc_result = "False" /\ rc_retries > 0 => Cardinality(sleeps) = rc_retries - 1
C37_Witness ==
    /\ rc_result = "False" /\ rc_retries = 3
    /\ rc_events = <<"nonzero", "sleep", "timeout", "sleep", "nonzero">>

\* C38: download_all_models reports success only when ootd and at least one
\* other model were downloaded, and reports failure whenever the download of
\* ootd failed.
C38_SuccessNeedsOotd ==
    LET got == {i \in DOMAIN dl_log : dl_log[i] # "failed"}
    IN /\ dl_result = "True" => (1 \in got /\ Cardinality(got) >= 2)
       /\ (dl_result \in {"True", "False"} /\ dl_log # <<>> /\ dl_log[1] = "failed")
             => dl_result = "False"

\* C39: handler of runpod_handler.py, RunPodHandler.handler and runpod_handler
\* never raise: every job is answered with a dict, and whenever setup, input
\* extraction, materialization, processing or the removal of the temp files
\* failed, the dict carries the key error.
C39_HandlersAnswerErrors ==
    (Finished /\ req.transport \in {"runpod", "serverless"})
        => /\ response.status # "raised"
           /\ (exc # NoExc \/ temps # {}) => response.status = "error"
====
